---- MODULE Spec2Model ----
(***************************************************************************)
(* Adaptive pricing and experimentation engine of prompt-business-         *)
(* automation: the hourly/daily/weekly cadences of OptimizationEngine, the  *)
(* scheduled tasks that invoke them, the SnackPrompt catalog they mutate    *)
(* and the PromotionService scheduler.                                      *)
(*                                                                         *)
(* Units: every price is in cents (1/100 of a currency unit), so that       *)
(* price * 1.05 and price * 0.95 are exact; catalog prices are whole units  *)
(* (multiples of 100).  Conversion rates are in percent.  Time is in hours. *)
(***************************************************************************)
EXTENDS Integers, Sequences, FiniteSets, TLC

VARIABLES
    envMinPrice,    \* process.env.MIN_PROMPT_PRICE as parseFloat gives it, in units; 0: unset
    now,            \* Date.now(), in hours
    catalog,        \* the remote catalog: listing id -> its fields
    promptStats,    \* AnalyticsService.dataCache.promptStats: [data, timestamp]
    hourly,         \* the hourly scheduled task and its hourlyOptimization call
    hourlyLeft,     \* number of hourly tasks that may still start
    variations,     \* services/variation-storage: listing id -> stored variants and results
    timers,         \* conclusions registered by scheduleTestEnd and not fired yet, oldest first
    daily,          \* the daily scheduled tasks and their dailyOptimization calls, per slot
    dailyLeft,      \* number of daily tasks that may still start
    history,        \* per listing: what the experiment controller has done so far
    weekly,         \* the weekly scheduled task and its weeklyRenovation call
    weeklyLeft,     \* number of weekly tasks that may still start
    firstSunday,    \* day of the year (1..365) of the Sunday the process starts in
    today,          \* when the promotion task fires next, in hours since that Sunday 0h
    hourlyAnalytics, \* AnalyticsService.dataCache.hourlyAnalytics.data
    promotions,     \* the promotions registered in the catalog, oldest first
    promo,          \* the promotion task and its setupDynamicPromotions call
    promoLeft,      \* number of promotion tasks that may still start
    serviceCalls,   \* direct calls of the services' functions: arguments and outcome, oldest first
    system,         \* startSystem: where it stands, and what it has registered so far
    hourlyAnalyticsCache, \* AnalyticsService.dataCache.hourlyAnalytics: days and timestamp
    refundStats     \* CustomerService.stats: the refund counters

vars == <<envMinPrice, now, catalog, promptStats, hourly, hourlyLeft,
          variations, timers, daily, dailyLeft, history, weekly, weeklyLeft,
          firstSunday, today, hourlyAnalytics, promotions, promo, promoLeft,
          serviceCalls, system, hourlyAnalyticsCache, refundStats>>

processVars == <<system, hourlyAnalyticsCache, refundStats>>
hourlyVars == <<promptStats, hourly, hourlyLeft>>
dailyVars == <<variations, timers, daily, dailyLeft, history>>
weeklyVars == <<weekly, weeklyLeft>>
promoVars == <<firstSunday, today, hourlyAnalytics, promotions, promo, promoLeft>>

----------------------------------------------------------------------------
(* Bounds of the model *)

MaxHourlyRuns == 2
MaxDailyRuns == 4
MaxWideRuns == 1
MaxWeeklyRuns == 2
MaxOverlapRuns == 2
MaxNow == 1
MaxPromoRuns == 2
MaxCalls == 2
MaxCycles == 2
MaxStarts == 3
MaxRefunds == 2
MaxFetches == 3
MaxPrice == 200
MaxDiscount == 55
MaxInstant == 335

\* the listings a deployment may hold, in the order the catalog lists them
AllListings == <<"p1", "p2", "p3", "p4">>

\* the listings of this catalog, in catalog order
Listings == SelectSeq(AllListings, LAMBDA id : id \in DOMAIN catalog)

\* prices (whole units) the listings are published at
InitialPrices == {25, 100, 150}

\* (conversion_rate %, views_last_hour) pairs the analytics endpoint may report
HourlyMetrics ==
    { [conversion_rate |-> 15, views_last_hour |-> 25],
      [conversion_rate |-> 12, views_last_hour |-> 25],
      [conversion_rate |-> 2,  views_last_hour |-> 35],
      [conversion_rate |-> 2,  views_last_hour |-> 30] }

\* (total_views, conversion_rate %, price_changed_recently) the detailed
\* analytics endpoint may report
DailyMetrics ==
    { [total_views |-> 100, conversion_rate |-> 8,  price_changed_recently |-> FALSE],
      [total_views |-> 150, conversion_rate |-> 8,  price_changed_recently |-> FALSE],
      [total_views |-> 350, conversion_rate |-> 2,  price_changed_recently |-> FALSE],
      [total_views |-> 350, conversion_rate |-> 12, price_changed_recently |-> TRUE] }

\* (views_last_7_days, conversion_rate %) the performance endpoint may report
WeeklyMetrics ==
    { [views_last_7_days |-> 600, conversion_rate |-> 15],
      [views_last_7_days |-> 200, conversion_rate |-> 2],
      [views_last_7_days |-> 300, conversion_rate |-> 2] }

\* weekday and hour of the data points of an analytics answer: six daytime
\* buckets, one of them with two points, and a night bucket
ActivityKeys ==
    << <<1, 9>>, <<1, 10>>, <<2, 8>>, <<3, 23>>, <<4, 7>>, <<5, 12>>, <<1, 3>>, <<1, 9>> >>

VisitCounts == {0, 10, 50}

\* answers of the hourly analytics endpoint over these data points, and the
\* two-bucket series Monday 9h: 10 visits, Monday 10h: 50 visits
ActivityInputs ==
    { [i \in 1..Len(ActivityKeys) |->
          [day |-> ActivityKeys[i][1], hour |-> ActivityKeys[i][2], visits |-> v[i]]] :
      v \in [1..Len(ActivityKeys) -> VisitCounts] }
    \cup { << [day |-> 1, hour |-> 10, visits |-> 50], [day |-> 1, hour |-> 9, visits |-> 10] >> }

\* position of a listing in the catalog's answers
ListingNumber == [p1 |-> 1, p2 |-> 2, p3 |-> 3, p4 |-> 4]

\* ages in days of four listings, in catalog order: three older than 30
\* days with the youngest of them first, or all of the same age
RenovationAges == { <<40, 60, 50, 20>>, <<45, 45, 45, 45>> }

\* which of four listings are on promotion, in catalog order
RenovationPromotions ==
    { <<FALSE, FALSE, FALSE, FALSE>>, <<TRUE, TRUE, TRUE, TRUE>>, <<TRUE, FALSE, TRUE, FALSE>>,
      <<FALSE, TRUE, TRUE, TRUE>> }

\* the Sundays (day of the year) a process may start in: 1 March and
\* 15 November
FirstSundays == {60, 319}

\* answers of the hourly analytics endpoint: data points in order, weekday 0
\* is Sunday
HourlyAnalyticsSamples ==
    { << [day |-> 1, hour |-> 9,  visits |-> 4], [day |-> 1, hour |-> 10, visits |-> 2],
         [day |-> 1, hour |-> 3,  visits |-> 0], [day |-> 3, hour |-> 9,  visits |-> 6],
         [day |-> 4, hour |-> 15, visits |-> 8], [day |-> 1, hour |-> 9,  visits |-> 20] >>,
      << [day |-> 1, hour |-> 9,  visits |-> 1], [day |-> 1, hour |-> 10, visits |-> 1],
         [day |-> 1, hour |-> 3,  visits |-> 0], [day |-> 3, hour |-> 9,  visits |-> 5],
         [day |-> 4, hour |-> 15, visits |-> 9], [day |-> 1, hour |-> 9,  visits |-> 1] >>,
      << [day |-> 0, hour |-> 23, visits |-> 3], [day |-> 2, hour |-> 6,  visits |-> 0] >> }

\* conversion (%) a concluded variant may show
ConversionValues == {5, 9}

----------------------------------------------------------------------------
(* OptimizationEngine constructor: parameters and thresholds *)

minPriceAdjustment == 95
maxPriceAdjustment == 105
defaultMinPromptPrice == 25
defaultMaxPromptPrice == 150
highConversionThreshold == 12
lowConversionThreshold == 3
highViewThreshold == 20
minTestViews == 100

\* SnackPromptAPI.updatePromptPrice's own default lower limit
apiDefaultMinPrice == 10

Min(a, b) == IF a < b THEN a ELSE b
Max(a, b) == IF a > b THEN a ELSE b

\* Math.round on a value in cents: the nearest whole unit, halves up
Round(c) == ((c + 50) \div 100) * 100

\* parseFloat(process.env.X) || d : NaN (unset) and 0 both give the default
EnvOr(v, d) == IF v = 0 THEN d ELSE v

minPromptPrice == EnvOr(envMinPrice, defaultMinPromptPrice) * 100
maxPromptPrice == defaultMaxPromptPrice * 100

----------------------------------------------------------------------------
(* SnackPromptAPI *)

\* the price updatePromptPrice sends to the catalog
ApiClampedPrice(price) ==
    LET minPrice == EnvOr(envMinPrice, apiDefaultMinPrice) * 100
        maxPrice == defaultMaxPromptPrice * 100
    IN  Min(Max(Round(price), minPrice), maxPrice)

\* catalog after a successful updatePromptPrice(id, price)
updatePromptPrice(cat, id, price) ==
    [cat EXCEPT ![id].price = ApiClampedPrice(price)]

----------------------------------------------------------------------------
(* utils/notifications: sendNotification never throws; a failing transport *)
(* is logged and reported as false                                          *)

sendNotification(type, delivered) == [type |-> type, delivered |-> delivered]

----------------------------------------------------------------------------
(* AnalyticsService.getPromptStats and the hourly scheduled task *)

NoData == <<>>
promptStatsTtl == 1

\* what GET /analytics/prompts answers: the catalog's fields with fresh metrics
StatsOf(m) ==
    [i \in 1..Len(Listings) |->
        [id |-> Listings[i],
         price |-> catalog[Listings[i]].price,
         currently_testing |-> catalog[Listings[i]].currently_testing,
         conversion_rate |-> m[i].conversion_rate,
         views_last_hour |-> m[i].views_last_hour]]

HourlyIdle ==
    [pc |-> "idle", stats |-> <<>>, idx |-> 0, updatedPrompts |-> <<>>,
     calls |-> <<>>, notifications |-> <<>>, result |-> <<>>, error |-> "none"]

\* hourlyOptimization(stats) begins: the loop starts at the first entry
HourlyStart(stats) ==
    [HourlyIdle EXCEPT !.pc = "loop", !.stats = stats, !.idx = 1]

CacheValid ==
    /\ promptStats.data # NoData
    /\ now - promptStats.timestamp < promptStatsTtl

\* the task fires; getPromptStats answers from a valid cache
HourlyFetchCached ==
    /\ hourly.pc \in {"idle", "done"}
    /\ hourlyLeft > 0
    /\ CacheValid
    /\ hourly' = HourlyStart(promptStats.data)
    /\ hourlyLeft' = hourlyLeft - 1
    /\ UNCHANGED <<envMinPrice, processVars, serviceCalls, now, catalog, promptStats, dailyVars, weeklyVars, promoVars>>

\* the task fires; getPromptStats fetches fresh statistics and caches them
HourlyFetchFresh ==
    /\ hourly.pc \in {"idle", "done"}
    /\ hourlyLeft > 0
    /\ ~CacheValid
    /\ \E m \in [1..Len(Listings) -> HourlyMetrics] :
          /\ hourly' = HourlyStart(StatsOf(m))
          /\ promptStats' = [data |-> StatsOf(m), timestamp |-> now]
    /\ hourlyLeft' = hourlyLeft - 1
    /\ UNCHANGED <<envMinPrice, processVars, serviceCalls, now, catalog, dailyVars, weeklyVars, promoVars>>

\* the task fires; the fetch fails: an expired cache is used when there is
\* one, otherwise getPromptStats throws and the task's own catch logs it
HourlyFetchFails ==
    /\ hourly.pc \in {"idle", "done"}
    /\ hourlyLeft > 0
    /\ ~CacheValid
    /\ hourly' = IF promptStats.data # NoData
                    THEN HourlyStart(promptStats.data)
                    ELSE [HourlyIdle EXCEPT !.pc = "done", !.error = "fetch"]
    /\ hourlyLeft' = hourlyLeft - 1
    /\ UNCHANGED <<envMinPrice, processVars, serviceCalls, now, catalog, promptStats, dailyVars, weeklyVars, promoVars>>

----------------------------------------------------------------------------
(* OptimizationEngine.hourlyOptimization *)

IncreaseCondition(prompt) ==
    /\ prompt.conversion_rate > highConversionThreshold
    /\ prompt.views_last_hour > highViewThreshold

\* views_last_hour > highViewThreshold * 1.5
DecreaseCondition(prompt) ==
    /\ prompt.views_last_hour * 2 > highViewThreshold * 3
    /\ prompt.conversion_rate < lowConversionThreshold

IncreasedPrice(prompt) ==
    Min((prompt.price * maxPriceAdjustment) \div 100, maxPromptPrice)

DecreasedPrice(prompt) ==
    Max((prompt.price * minPriceAdjustment) \div 100, minPromptPrice)

\* hourlyOptimization without its currently_testing guard
HourlyDecisionUnguarded(prompt) ==
    IF IncreaseCondition(prompt) THEN
        IF IncreasedPrice(prompt) > prompt.price + 100
        THEN [id |-> prompt.id, oldPrice |-> prompt.price,
              newPrice |-> IncreasedPrice(prompt), reason |-> "increase_high_conversion"]
        ELSE <<>>
    ELSE IF DecreaseCondition(prompt) THEN
        IF DecreasedPrice(prompt) < prompt.price - 100
        THEN [id |-> prompt.id, oldPrice |-> prompt.price,
              newPrice |-> DecreasedPrice(prompt), reason |-> "decrease_low_conversion"]
        ELSE <<>>
    ELSE <<>>

\* the price change hourlyOptimization decides for one entry of stats:
\* <<>> when it holds, otherwise the record it pushes once the write succeeds
HourlyDecision(prompt) ==
    IF prompt.currently_testing THEN <<>>
    ELSE IF IncreaseCondition(prompt) THEN
        IF IncreasedPrice(prompt) > prompt.price + 100
        THEN [id |-> prompt.id, oldPrice |-> prompt.price,
              newPrice |-> IncreasedPrice(prompt), reason |-> "increase_high_conversion"]
        ELSE <<>>
    ELSE IF DecreaseCondition(prompt) THEN
        IF DecreasedPrice(prompt) < prompt.price - 100
        THEN [id |-> prompt.id, oldPrice |-> prompt.price,
              newPrice |-> DecreasedPrice(prompt), reason |-> "decrease_low_conversion"]
        ELSE <<>>
    ELSE <<>>

\* one iteration of the for loop that changes nothing
HourlySkip ==
    /\ hourly.pc = "loop"
    /\ hourly.idx <= Len(hourly.stats)
    /\ HourlyDecision(hourly.stats[hourly.idx]) = <<>>
    /\ hourly' = [hourly EXCEPT !.idx = @ + 1]
    /\ UNCHANGED <<envMinPrice, processVars, serviceCalls, now, catalog, promptStats, hourlyLeft, dailyVars, weeklyVars, promoVars>>

\* one iteration whose updatePromptPrice succeeds
HourlyUpdate ==
    /\ hourly.pc = "loop"
    /\ hourly.idx <= Len(hourly.stats)
    /\ LET d == HourlyDecision(hourly.stats[hourly.idx]) IN
        /\ d # <<>>
        /\ catalog' = updatePromptPrice(catalog, d.id, d.newPrice)
        /\ hourly' = [hourly EXCEPT
                !.idx = @ + 1,
                !.calls = Append(@, [id |-> d.id, price |-> d.newPrice, ok |-> TRUE]),
                !.updatedPrompts = Append(@, d)]
    /\ UNCHANGED <<envMinPrice, processVars, serviceCalls, now, promptStats, hourlyLeft, dailyVars, weeklyVars, promoVars>>

\* one iteration whose updatePromptPrice throws: the loop has no handler of
\* its own, so the method's catch notifies and returns []
HourlyUpdateFails ==
    /\ hourly.pc = "loop"
    /\ hourly.idx <= Len(hourly.stats)
    /\ LET d == HourlyDecision(hourly.stats[hourly.idx]) IN
        /\ d # <<>>
        /\ \E delivered \in BOOLEAN :
            hourly' = [hourly EXCEPT
                !.pc = "done",
                !.calls = Append(@, [id |-> d.id, price |-> d.newPrice, ok |-> FALSE]),
                !.notifications = Append(@, sendNotification("error", delivered)),
                !.result = <<>>,
                !.error = "caught"]
    /\ UNCHANGED <<envMinPrice, processVars, serviceCalls, now, catalog, promptStats, hourlyLeft, dailyVars, weeklyVars, promoVars>>

\* the loop is over: return updatedPrompts
HourlyReturn ==
    /\ hourly.pc = "loop"
    /\ hourly.idx > Len(hourly.stats)
    /\ hourly' = [hourly EXCEPT !.pc = "done", !.result = hourly.updatedPrompts]
    /\ UNCHANGED <<envMinPrice, processVars, serviceCalls, now, catalog, promptStats, hourlyLeft, dailyVars, weeklyVars, promoVars>>

----------------------------------------------------------------------------
(* Listing content.  A title and its description are always written        *)
(* together, so one field stands for the pair: base -1 is the published    *)
(* text, base i >= 0 is variations.titles[i] / variations.descriptions[i],  *)
(* and suffix lists what was appended to it since.                          *)

Title(i) == [base |-> i, suffix |-> <<>>]

\* SnackPromptAPI.updatePrompt(id, fields): PATCH of the given fields
updatePrompt(cat, id, fields) ==
    [cat EXCEPT ![id] =
        [f \in DOMAIN @ |-> IF f \in DOMAIN fields THEN fields[f] ELSE @[f]]]

----------------------------------------------------------------------------
(* services/variation-storage (not part of the sources at hand): the       *)
(* experiment state of a listing is its variants, tested_count and results, *)
(* one result per concluded variant run                                     *)

\* retrievePromptVariations(id)
retrievePromptVariations(id) == variations[id]

\* storeTestResults(id, variationIndex, performance): record the result,
\* increment tested_count
storeTestResults(vs, id, variationIndex, conversion) ==
    [vs EXCEPT ![id].results =
                    Append(@, [title |-> Title(variationIndex), conversion |-> conversion]),
               ![id].tested_count = @ + 1]

----------------------------------------------------------------------------
(* The daily scheduled task: getDetailedAnalytics, then dailyOptimization   *)

\* what GET /analytics/detailed answers: the catalog's fields with fresh metrics
DetailedOf(m) ==
    [i \in 1..Len(Listings) |->
        [id |-> Listings[i],
         price |-> catalog[Listings[i]].price,
         title |-> catalog[Listings[i]].title,
         currently_testing |-> catalog[Listings[i]].currently_testing,
         total_views |-> m[i].total_views,
         conversion_rate |-> m[i].conversion_rate,
         price_changed_recently |-> m[i].price_changed_recently]]

DailyIdle ==
    [pc |-> "idle", allData |-> <<>>, idx |-> 0, actions |-> <<>>,
     tested |-> <<>>, priced |-> <<>>, notifications |-> <<>>,
     result |-> <<>>, error |-> "none"]

\* Array.prototype.slice(0, n)
Slice(seq, n) == SubSeq(seq, 1, Min(n, Len(seq)))

TestingFilter(p) ==
    /\ p.total_views > minTestViews
    /\ ~p.currently_testing
    /\ p.conversion_rate < highConversionThreshold

LowPerformingFilter(p) ==
    /\ p.total_views > minTestViews * 2
    /\ p.conversion_rate < lowConversionThreshold
    /\ ~p.currently_testing

StablePriceFilter(p) ==
    /\ p.total_views > minTestViews * 3
    /\ ~p.price_changed_recently
    /\ ~p.currently_testing

\* the experiment work list capped at three instead of two
promptsForTestingUpToThree(allData) == Slice(SelectSeq(allData, TestingFilter), 3)

\* the content work list capped at four instead of three
lowPerformingPromptsUpToFour(allData) == Slice(SelectSeq(allData, LowPerformingFilter), 4)

\* the three work lists dailyOptimization derives from its snapshot
promptsForTesting(allData) == Slice(SelectSeq(allData, TestingFilter), 2)
lowPerformingPrompts(allData) == Slice(SelectSeq(allData, LowPerformingFilter), 3)
stablePricePrompts(allData) == SelectSeq(allData, StablePriceFilter)

\* the task in slot r fires and its analytics fetch succeeds
DailyFetch(r) ==
    /\ daily[r].pc \in {"idle", "done"}
    /\ dailyLeft > 0
    /\ \E m \in [1..Len(Listings) -> DailyMetrics] :
          daily' = [daily EXCEPT ![r] =
                      [DailyIdle EXCEPT !.pc = "test", !.allData = DetailedOf(m), !.idx = 1]]
    /\ dailyLeft' = dailyLeft - 1
    /\ UNCHANGED <<envMinPrice, processVars, serviceCalls, now, catalog, hourlyVars, variations, timers, history, weeklyVars, promoVars>>

\* the task in slot r fires and getDetailedAnalytics throws: the task's own
\* catch logs it and dailyOptimization is not called
DailyFetchFails(r) ==
    /\ daily[r].pc \in {"idle", "done"}
    /\ dailyLeft > 0
    /\ daily' = [daily EXCEPT ![r] = [DailyIdle EXCEPT !.pc = "done", !.error = "fetch"]]
    /\ dailyLeft' = dailyLeft - 1
    /\ UNCHANGED <<envMinPrice, processVars, serviceCalls, now, catalog, hourlyVars, variations, timers, history, weeklyVars, promoVars>>

----------------------------------------------------------------------------
(* OptimizationEngine.startABTest and scheduleTestEnd *)

\* the last of the results with the highest conversion
BestVariationLast(results) ==
    LET best == CHOOSE i \in 1..Len(results) :
                   /\ \A j \in 1..Len(results) : results[j].conversion <= results[i].conversion
                   /\ \A j \in (i + 1)..Len(results) : results[j].conversion < results[i].conversion
    IN  results[best]

\* at least one stored variant
AnyVariations(v) == v.count > 0

\* results.sort((a, b) => b.conversion - a.conversion)[0]: the sort is
\* stable, so the first result with the highest conversion
BestVariation(results) ==
    LET best == CHOOSE i \in 1..Len(results) :
                   /\ \A j \in 1..Len(results) : results[j].conversion <= results[i].conversion
                   /\ \A j \in 1..(i - 1) : results[j].conversion < results[i].conversion
    IN  results[best]

EnoughVariations(v) == v.count > 1
AllTested(v) == v.tested_count >= v.count

\* what startABTest(prompt) is about to do, from the stored variations
StartABTestBranch(v) ==
    IF ~EnoughVariations(v) THEN "none"
    ELSE IF AllTested(v) THEN (IF Len(v.results) = 0 THEN "none" ELSE "apply")
    ELSE "start"

\* the call returns null: the storage read throws, there is nothing to
\* test, or the catalog write throws
StartABTestNothing(r, prompt) ==
    /\ daily' = [daily EXCEPT ![r].idx = @ + 1, ![r].tested = Append(@, prompt.id)]
    /\ UNCHANGED <<catalog, variations, timers, history>>

\* all variants tested: the best result's text is written to the listing
StartABTestApply(r, prompt) ==
    LET v == retrievePromptVariations(prompt.id)
        bestVariation == BestVariation(v.results)
    IN  /\ StartABTestBranch(v) = "apply"
        /\ catalog' = updatePrompt(catalog, prompt.id, [title |-> bestVariation.title])
        /\ daily' = [daily EXCEPT
                ![r].idx = @ + 1,
                ![r].tested = Append(@, prompt.id),
                ![r].actions = Append(@, [type |-> "apply_best_variation",
                                          promptId |-> prompt.id,
                                          variation |-> bestVariation])]
        /\ history' = [history EXCEPT ![prompt.id].applied = Min(@ + 1, 2)]
        /\ UNCHANGED <<variations, timers>>

\* the next variant is written with currently_testing = true, with no
\* conclusion registered
StartABTestStartUnscheduled(r, prompt) ==
    LET v == retrievePromptVariations(prompt.id)
        nextIndex == v.tested_count
    IN  /\ StartABTestBranch(v) = "start"
        /\ catalog' = updatePrompt(catalog, prompt.id,
                          [title |-> Title(nextIndex), currently_testing |-> TRUE])
        /\ daily' = [daily EXCEPT
                ![r].idx = @ + 1,
                ![r].tested = Append(@, prompt.id),
                ![r].actions = Append(@, [type |-> "start_ab_test",
                                          promptId |-> prompt.id,
                                          variationIndex |-> nextIndex])]
        /\ UNCHANGED <<variations, timers, history>>

\* the conclusion registered before the write, which then throws
StartABTestStartEarly(r, prompt) ==
    LET v == retrievePromptVariations(prompt.id)
        nextIndex == v.tested_count
    IN  /\ StartABTestBranch(v) = "start"
        /\ timers' = Append(timers, [promptId |-> prompt.id, variationIndex |-> nextIndex])
        /\ daily' = [daily EXCEPT ![r].idx = @ + 1, ![r].tested = Append(@, prompt.id)]
        /\ UNCHANGED <<catalog, variations, history>>

\* the next variant is written with currently_testing = true and its
\* conclusion is registered
StartABTestStart(r, prompt) ==
    LET v == retrievePromptVariations(prompt.id)
        nextIndex == v.tested_count
    IN  /\ StartABTestBranch(v) = "start"
        /\ catalog' = updatePrompt(catalog, prompt.id,
                          [title |-> Title(nextIndex), currently_testing |-> TRUE])
        /\ timers' = Append(timers, [promptId |-> prompt.id, variationIndex |-> nextIndex])
        /\ daily' = [daily EXCEPT
                ![r].idx = @ + 1,
                ![r].tested = Append(@, prompt.id),
                ![r].actions = Append(@, [type |-> "start_ab_test",
                                          promptId |-> prompt.id,
                                          variationIndex |-> nextIndex])]
        /\ history' = [history EXCEPT
                ![prompt.id].startedWhileRunning =
                    \/ @
                    \/ catalog[prompt.id].currently_testing
                    \/ \E k \in 1..Len(timers) : timers[k].promptId = prompt.id,
                ![prompt.id].startedAfterExhausted = @ \/ history[prompt.id].exhausted]
        /\ UNCHANGED variations

\* one iteration of the loop over promptsForTesting.slice(0, 2)
DailyTest(r) ==
    /\ daily[r].pc = "test"
    /\ daily[r].idx <= Len(promptsForTesting(daily[r].allData))
    /\ LET prompt == promptsForTesting(daily[r].allData)[daily[r].idx] IN
          \/ StartABTestNothing(r, prompt)
          \/ StartABTestApply(r, prompt)
          \/ StartABTestStart(r, prompt)
    /\ UNCHANGED <<envMinPrice, processVars, serviceCalls, now, hourlyVars, dailyLeft, weeklyVars, promoVars>>

DailyTestDone(r) ==
    /\ daily[r].pc = "test"
    /\ daily[r].idx > Len(promptsForTesting(daily[r].allData))
    /\ daily' = [daily EXCEPT ![r].pc = "improve", ![r].idx = 1]
    /\ UNCHANGED <<envMinPrice, processVars, serviceCalls, now, catalog, hourlyVars, variations, timers, dailyLeft, history, weeklyVars, promoVars>>

\* a failing conclusion that clears currently_testing all the same
ConcludeFailsClearing ==
    /\ timers # <<>>
    /\ timers' = Tail(timers)
    /\ catalog' = updatePrompt(catalog, Head(timers).promptId, [currently_testing |-> FALSE])
    /\ UNCHANGED <<envMinPrice, processVars, serviceCalls, now, hourlyVars, variations, daily, dailyLeft, history, weeklyVars, promoVars>>

\* the timer of the oldest registered conclusion fires (all are registered
\* with the same delay); the performance fetch or the storage write throws
ConcludeFails ==
    /\ timers # <<>>
    /\ timers' = Tail(timers)
    /\ UNCHANGED <<envMinPrice, processVars, serviceCalls, now, catalog, hourlyVars, variations, daily, dailyLeft, history, weeklyVars, promoVars>>

\* a conclusion that stores its result twice
ConcludeStoresTwice ==
    /\ timers # <<>>
    /\ LET t == Head(timers) IN
        \E conversion \in ConversionValues, cleared \in BOOLEAN :
          /\ variations' = storeTestResults(
                               storeTestResults(variations, t.promptId, t.variationIndex, conversion),
                               t.promptId, t.variationIndex, conversion)
          /\ catalog' = IF cleared
                           THEN updatePrompt(catalog, t.promptId, [currently_testing |-> FALSE])
                           ELSE catalog
          /\ history' = [history EXCEPT ![t.promptId].exhausted =
                            @ \/ AllTested(variations'[t.promptId])]
    /\ timers' = Tail(timers)
    /\ UNCHANGED <<envMinPrice, processVars, serviceCalls, now, hourlyVars, daily, dailyLeft, weeklyVars, promoVars>>

\* the conclusion stores the result; the final catalog write succeeds or throws
ConcludeStores ==
    /\ timers # <<>>
    /\ LET t == Head(timers) IN
        \E conversion \in ConversionValues, cleared \in BOOLEAN :
          /\ variations' = storeTestResults(variations, t.promptId, t.variationIndex, conversion)
          /\ catalog' = IF cleared
                           THEN updatePrompt(catalog, t.promptId, [currently_testing |-> FALSE])
                           ELSE catalog
          /\ history' = [history EXCEPT ![t.promptId].exhausted =
                            @ \/ AllTested(variations'[t.promptId])]
    /\ timers' = Tail(timers)
    /\ UNCHANGED <<envMinPrice, processVars, serviceCalls, now, hourlyVars, daily, dailyLeft, weeklyVars, promoVars>>

----------------------------------------------------------------------------
(* OptimizationEngine.improvePromptContent *)

Improved(title) == [title EXCEPT !.suffix = Append(@, "optimized")]

\* one iteration of the loop over lowPerformingPrompts.slice(0, 3)
DailyImprove(r) ==
    /\ daily[r].pc = "improve"
    /\ daily[r].idx <= Len(lowPerformingPrompts(daily[r].allData))
    /\ LET prompt == lowPerformingPrompts(daily[r].allData)[daily[r].idx] IN
          \/ /\ catalog' = updatePrompt(catalog, prompt.id, [title |-> Improved(prompt.title)])
             /\ daily' = [daily EXCEPT
                    ![r].idx = @ + 1,
                    ![r].actions = Append(@, [type |-> "improve_content",
                                              promptId |-> prompt.id])]
          \/ /\ daily' = [daily EXCEPT ![r].idx = @ + 1]
             /\ UNCHANGED catalog
    /\ UNCHANGED <<envMinPrice, processVars, serviceCalls, now, hourlyVars, variations, timers, dailyLeft, history, weeklyVars, promoVars>>

DailyImproveDone(r) ==
    /\ daily[r].pc = "improve"
    /\ daily[r].idx > Len(lowPerformingPrompts(daily[r].allData))
    /\ daily' = [daily EXCEPT ![r].pc = "price", ![r].idx = 1]
    /\ UNCHANGED <<envMinPrice, processVars, serviceCalls, now, catalog, hourlyVars, variations, timers, dailyLeft, history, weeklyVars, promoVars>>

----------------------------------------------------------------------------
(* OptimizationEngine.optimizeLongTermPrice *)

\* price_elasticity (in hundredths) that getLongTermTrends may report; 0 is
\* also what it reports when the performance fetch fails
Elasticities == {15, 10, 0, -10, -15}

LongTermUp(price) == Min((price * 110) \div 100, maxPromptPrice)
LongTermDown(price) == Max((price * 90) \div 100, minPromptPrice)

\* the record optimizeLongTermPrice returns once its write succeeds; <<>>: hold
LongTermDecision(prompt, e) ==
    IF e = 0 THEN <<>>
    ELSE IF e > 10 THEN
        [type |-> "optimize_long_term_price_up", promptId |-> prompt.id,
         oldPrice |-> prompt.price, newPrice |-> LongTermUp(prompt.price)]
    ELSE IF e < -10 THEN
        [type |-> "optimize_long_term_price_down", promptId |-> prompt.id,
         oldPrice |-> prompt.price, newPrice |-> LongTermDown(prompt.price)]
    ELSE <<>>

\* one iteration of the loop over stablePricePrompts
DailyPrice(r) ==
    /\ daily[r].pc = "price"
    /\ daily[r].idx <= Len(stablePricePrompts(daily[r].allData))
    /\ LET prompt == stablePricePrompts(daily[r].allData)[daily[r].idx] IN
        \E e \in Elasticities :
          LET d == LongTermDecision(prompt, e) IN
            \/ /\ d # <<>>
               /\ catalog' = updatePromptPrice(catalog, prompt.id, d.newPrice)
               /\ daily' = [daily EXCEPT
                      ![r].idx = @ + 1,
                      ![r].priced = Append(@, prompt.id),
                      ![r].actions = Append(@, d)]
            \/ /\ daily' = [daily EXCEPT ![r].idx = @ + 1, ![r].priced = Append(@, prompt.id)]
               /\ UNCHANGED catalog
    /\ UNCHANGED <<envMinPrice, processVars, serviceCalls, now, hourlyVars, variations, timers, dailyLeft, history, weeklyVars, promoVars>>

\* return actions
DailyReturn(r) ==
    /\ daily[r].pc = "price"
    /\ daily[r].idx > Len(stablePricePrompts(daily[r].allData))
    /\ daily' = [daily EXCEPT ![r].pc = "done", ![r].result = daily[r].actions]
    /\ UNCHANGED <<envMinPrice, processVars, serviceCalls, now, catalog, hourlyVars, variations, timers, dailyLeft, history, weeklyVars, promoVars>>

----------------------------------------------------------------------------
(* The weekly scheduled task: OptimizationEngine.weeklyRenovation *)

NoPerformance == <<>>

\* getPrompts, then getPromptPerformance for each listing (null when it fails)
WithPerformance(m) ==
    [i \in 1..Len(Listings) |->
        [id |-> Listings[i],
         price |-> catalog[Listings[i]].price,
         title |-> catalog[Listings[i]].title,
         on_promotion |-> catalog[Listings[i]].on_promotion,
         promotion_percentage |-> catalog[Listings[i]].promotion_percentage,
         age_days |-> catalog[Listings[i]].age_days,
         performance |-> m[i]]]

WeeklyIdle ==
    [pc |-> "idle", prompts |-> <<>>, idx |-> 0, actions |-> <<>>,
     notifications |-> <<>>, attachment |-> <<>>, result |-> <<>>, error |-> "none"]

\* creation_date earlier than 30 days ago
OldFilter(p) == p.age_days > 30

HighDemandFilter(p) ==
    /\ p.performance # NoPerformance
    /\ p.performance.views_last_7_days > 500
    /\ p.performance.conversion_rate > highConversionThreshold

LowDemandFilter(p) ==
    /\ p.performance # NoPerformance
    /\ p.performance.views_last_7_days > 100
    /\ p.performance.views_last_7_days < 300
    /\ p.performance.conversion_rate < lowConversionThreshold
    /\ ~p.on_promotion

\* the first four of the high-demand listings
highDemandPromptsUpToFour(prompts) == Slice(SelectSeq(prompts, HighDemandFilter), 4)

oldPrompts(prompts) == Slice(SelectSeq(prompts, OldFilter), 2)
highDemandPrompts(prompts) == Slice(SelectSeq(prompts, HighDemandFilter), 3)
lowDemandPrompts(prompts) == Slice(SelectSeq(prompts, LowDemandFilter), 3)

\* the task fires and getPrompts succeeds
WeeklyFetch ==
    /\ weekly.pc \in {"idle", "done"}
    /\ weeklyLeft > 0
    /\ \E m \in [1..Len(Listings) -> WeeklyMetrics \cup {NoPerformance}] :
          weekly' = [WeeklyIdle EXCEPT !.pc = "refresh", !.prompts = WithPerformance(m), !.idx = 1]
    /\ weeklyLeft' = weeklyLeft - 1
    /\ UNCHANGED <<envMinPrice, processVars, serviceCalls, now, catalog, hourlyVars, dailyVars, promoVars>>

\* the task fires and getPrompts throws: the method's catch notifies and
\* returns []
WeeklyFetchFails ==
    /\ weekly.pc \in {"idle", "done"}
    /\ weeklyLeft > 0
    /\ \E delivered \in BOOLEAN :
          weekly' = [WeeklyIdle EXCEPT
                !.pc = "done",
                !.notifications = <<sendNotification("error", delivered)>>,
                !.error = "caught"]
    /\ weeklyLeft' = weeklyLeft - 1
    /\ UNCHANGED <<envMinPrice, processVars, serviceCalls, now, catalog, hourlyVars, dailyVars, promoVars>>

Refreshed(title) == [title EXCEPT !.suffix = Append(@, "2025 Edition")]

\* refreshPromptContent for one of the old listings; the write may throw
WeeklyRefresh ==
    /\ weekly.pc = "refresh"
    /\ weekly.idx <= Len(oldPrompts(weekly.prompts))
    /\ LET prompt == oldPrompts(weekly.prompts)[weekly.idx] IN
          \/ /\ catalog' = updatePrompt(catalog, prompt.id,
                              [title |-> Refreshed(prompt.title), last_refresh_date |-> now])
             /\ weekly' = [weekly EXCEPT
                    !.idx = @ + 1,
                    !.actions = Append(@, [type |-> "refresh_content", promptId |-> prompt.id])]
          \/ /\ weekly' = [weekly EXCEPT !.idx = @ + 1]
             /\ UNCHANGED catalog
    /\ UNCHANGED <<envMinPrice, processVars, serviceCalls, now, hourlyVars, dailyVars, weeklyLeft, promoVars>>

WeeklyRefreshDone ==
    /\ weekly.pc = "refresh"
    /\ weekly.idx > Len(oldPrompts(weekly.prompts))
    /\ weekly' = [weekly EXCEPT !.pc = "remove", !.idx = 1]
    /\ UNCHANGED <<envMinPrice, processVars, serviceCalls, now, catalog, hourlyVars, dailyVars, weeklyLeft, promoVars>>

\* Math.round(n / d) for positive n, d
RoundDiv(n, d) == (2 * n + d) \div (2 * d)

\* the promotion price marked up by the percentage
NormalPriceByMarkup(price, percentage) ==
    RoundDiv((price \div 100) * (100 + percentage), 100) * 100

\* Math.round(price / (1 - percentage / 100)), in cents
NormalPrice(price, percentage) ==
    RoundDiv((price \div 100) * 100, 100 - percentage) * 100

\* Math.round(price * (1 - percentage / 100)), in cents
PromotionPrice(price, percentage) ==
    RoundDiv((price \div 100) * (100 - percentage), 100) * 100

\* removePromotion for one of the high-demand listings that is on promotion
WeeklyRemove ==
    /\ weekly.pc = "remove"
    /\ weekly.idx <= Len(highDemandPrompts(weekly.prompts))
    /\ LET prompt == highDemandPrompts(weekly.prompts)[weekly.idx]
           normalPrice == NormalPrice(prompt.price, prompt.promotion_percentage)
       IN
          \/ /\ prompt.on_promotion
             /\ catalog' = updatePrompt(catalog, prompt.id,
                              [price |-> normalPrice, on_promotion |-> FALSE,
                               promotion_percentage |-> 0])
             /\ weekly' = [weekly EXCEPT
                    !.idx = @ + 1,
                    !.actions = Append(@, [type |-> "remove_promotion", promptId |-> prompt.id,
                                           oldPrice |-> prompt.price, newPrice |-> normalPrice,
                                           promotionPercentage |-> prompt.promotion_percentage])]
          \/ /\ weekly' = [weekly EXCEPT !.idx = @ + 1]
             /\ UNCHANGED catalog
    /\ UNCHANGED <<envMinPrice, processVars, serviceCalls, now, hourlyVars, dailyVars, weeklyLeft, promoVars>>

WeeklyRemoveDone ==
    /\ weekly.pc = "remove"
    /\ weekly.idx > Len(highDemandPrompts(weekly.prompts))
    /\ weekly' = [weekly EXCEPT !.pc = "apply", !.idx = 1]
    /\ UNCHANGED <<envMinPrice, processVars, serviceCalls, now, catalog, hourlyVars, dailyVars, weeklyLeft, promoVars>>

weeklyPromotionPercentage == 15
weeklyPromotionDays == 7

\* applyPromotion for one of the low-demand listings; the write may throw
WeeklyApply ==
    /\ weekly.pc = "apply"
    /\ weekly.idx <= Len(lowDemandPrompts(weekly.prompts))
    /\ LET prompt == lowDemandPrompts(weekly.prompts)[weekly.idx]
           promotionPrice == PromotionPrice(prompt.price, weeklyPromotionPercentage)
       IN
          \/ /\ catalog' = updatePrompt(catalog, prompt.id,
                              [price |-> promotionPrice, on_promotion |-> TRUE,
                               promotion_percentage |-> weeklyPromotionPercentage,
                               promotion_end_date |-> now + weeklyPromotionDays * 24])
             /\ weekly' = [weekly EXCEPT
                    !.idx = @ + 1,
                    !.actions = Append(@, [type |-> "apply_promotion", promptId |-> prompt.id,
                                           oldPrice |-> prompt.price, newPrice |-> promotionPrice,
                                           promotionPercentage |-> weeklyPromotionPercentage])]
          \/ /\ weekly' = [weekly EXCEPT !.idx = @ + 1]
             /\ UNCHANGED catalog
    /\ UNCHANGED <<envMinPrice, processVars, serviceCalls, now, hourlyVars, dailyVars, weeklyLeft, promoVars>>

\* a report sent only when the run has made an action
WeeklyReportWhenActions ==
    /\ weekly.pc = "apply"
    /\ weekly.idx > Len(lowDemandPrompts(weekly.prompts))
    /\ \E delivered \in BOOLEAN :
          weekly' = [weekly EXCEPT
                !.pc = "done",
                !.notifications = IF weekly.actions # <<>>
                                     THEN Append(@, sendNotification("report", delivered))
                                     ELSE @,
                !.attachment = weekly.actions,
                !.result = weekly.actions]
    /\ UNCHANGED <<envMinPrice, processVars, serviceCalls, now, catalog, hourlyVars, dailyVars, weeklyLeft, promoVars>>

\* the report notification with the actions attached, then return actions
WeeklyReport ==
    /\ weekly.pc = "apply"
    /\ weekly.idx > Len(lowDemandPrompts(weekly.prompts))
    /\ \E delivered \in BOOLEAN :
          weekly' = [weekly EXCEPT
                !.pc = "done",
                !.notifications = Append(@, sendNotification("report", delivered)),
                !.attachment = weekly.actions,
                !.result = weekly.actions]
    /\ UNCHANGED <<envMinPrice, processVars, serviceCalls, now, catalog, hourlyVars, dailyVars, weeklyLeft, promoVars>>

----------------------------------------------------------------------------
(* PromotionService: the calendar.  Times are hours since 0h of the Sunday  *)
(* the process starts in; years have 365 days.                              *)

flashDiscount == 25
specialEventDiscount == 30
flashDurationHours == 3
upcomingDays == 14
hoursPerYear == 8760

specialEvents ==
    << [name |-> "Summer Sale",   month |-> 6,  day |-> 21, duration |-> 7 * 24],
       [name |-> "Black Friday",  month |-> 11, day |-> 25, duration |-> 3 * 24],
       [name |-> "Cyber Monday",  month |-> 11, day |-> 28, duration |-> 1 * 24],
       [name |-> "New Year Sale", month |-> 1,  day |-> 1,  duration |-> 7 * 24] >>

\* days of the year before the first day of each month
DaysBeforeMonth == <<0, 31, 59, 90, 120, 151, 181, 212, 243, 273, 304, 334>>

\* Date.prototype.getDay, getHours, getFullYear (years since the start)
GetDay(t) == (t \div 24) % 7
GetHours(t) == t % 24
GetFullYear(t) == ((firstSunday - 1) * 24 + t) \div hoursPerYear

\* new Date(year, month - 1, day)
DateOf(year, month, day) ==
    year * hoursPerYear + (DaysBeforeMonth[month] + day - firstSunday) * 24

\* getNextOccurrence(day, hour) called at time t; day is days.indexOf(day),
\* -1 for a name that is not a weekday
getNextOccurrence(t, day, hour) ==
    LET diff == day - GetDay(t)
        nextWeek == IF diff <= 0 THEN diff + 7 ELSE diff
        daysToAdd == IF day = -1 THEN 1
                     ELSE IF nextWeek = 0 /\ GetHours(t) >= hour THEN 7
                     ELSE nextWeek
    IN  ((t \div 24) + daysToAdd) * 24 + hour

\* Math.ceil(h / 24) for h >= 0
CeilDays(h) == (h + 23) \div 24

\* the event of specialEvents[i] ending as it starts
EventAtWithoutDuration(t, i) ==
    LET event == specialEvents[i]
        thisYear == DateOf(GetFullYear(t), event.month, event.day)
        eventDate == IF thisYear < t
                        THEN DateOf(GetFullYear(t) + 1, event.month, event.day)
                        ELSE thisYear
    IN  [name |-> event.name, startDate |-> eventDate,
         endDate |-> eventDate,
         daysUntilEvent |-> CeilDays(eventDate - t)]

\* the event of specialEvents[i] as checkUpcomingSpecialEvents sees it at t
EventAt(t, i) ==
    LET event == specialEvents[i]
        thisYear == DateOf(GetFullYear(t), event.month, event.day)
        eventDate == IF thisYear < t
                        THEN DateOf(GetFullYear(t) + 1, event.month, event.day)
                        ELSE thisYear
    IN  [name |-> event.name, startDate |-> eventDate,
         endDate |-> eventDate + event.duration,
         daysUntilEvent |-> CeilDays(eventDate - t)]

checkUpcomingSpecialEvents(t) ==
    SelectSeq([i \in 1..Len(specialEvents) |-> EventAt(t, i)],
              LAMBDA e : e.daysUntilEvent <= upcomingDays)

----------------------------------------------------------------------------
(* PromotionService.findLowActivityPeriods *)

\* index in entries of the entry for (day, hour), 0 when there is none
KeyIndex(entries, day, hour) ==
    LET found == {i \in 1..Len(entries) : entries[i].day = day /\ entries[i].hour = hour}
    IN  IF found = {} THEN 0 ELSE CHOOSE i \in found : TRUE

\* activityByHourDay after the loop over the data points, in insertion order
RECURSIVE ActivityByHourDay(_)
ActivityByHourDay(analytics) ==
    IF analytics = <<>> THEN <<>>
    ELSE LET entries == ActivityByHourDay(SubSeq(analytics, 1, Len(analytics) - 1))
             dataPoint == analytics[Len(analytics)]
             k == KeyIndex(entries, dataPoint.day, dataPoint.hour)
         IN  IF k = 0
                THEN Append(entries, [day |-> dataPoint.day, hour |-> dataPoint.hour,
                                      count |-> 1, visits |-> dataPoint.visits])
                ELSE [entries EXCEPT ![k].count = @ + 1,
                                     ![k].visits = @ + dataPoint.visits]

\* b.avgVisits - a.avgVisits < 0: the comparison of a descending sort
MoreActive(a, b) == a.visits * b.count > b.visits * a.count

\* a.avgVisits - b.avgVisits < 0, with avgVisits = visits / count
LessActive(a, b) == a.visits * b.count < b.visits * a.count

\* entry put into an ascending sequence, behind the entries it is not below
InsertByActivity(sorted, entry) ==
    LET before == {i \in 1..Len(sorted) : ~LessActive(entry, sorted[i])}
        n == IF before = {} THEN 0 ELSE CHOOSE i \in before : \A j \in before : j <= i
    IN  SubSeq(sorted, 1, n) \o <<entry>> \o SubSeq(sorted, n + 1, Len(sorted))

\* Array.prototype.sort((a, b) => a.avgVisits - b.avgVisits): stable
RECURSIVE SortByActivity(_)
SortByActivity(entries) ==
    IF entries = <<>> THEN <<>>
    ELSE InsertByActivity(SortByActivity(SubSeq(entries, 1, Len(entries) - 1)),
                          entries[Len(entries)])

findLowActivityPeriods(analytics) ==
    LET filteredPeriods == SelectSeq(ActivityByHourDay(analytics),
                                     LAMBDA entry : entry.hour >= 7 /\ entry.hour <= 23)
    IN  Slice(SortByActivity(filteredPeriods), 5)

----------------------------------------------------------------------------
(* PromotionService.selectPromptsForPromotion and setupDynamicPromotions *)

\* a selection among all the listings, on promotion or not
selectPromptsForPromotionAmongAll(prompts, count) ==
    LET ids == {prompts[i].id : i \in 1..Len(prompts)}
    IN  IF Len(prompts) <= count
           THEN {ids}
           ELSE {chosen \in SUBSET ids : Cardinality(chosen) = count}

\* the sets of listing ids selectPromptsForPromotion(prompts, count) may
\* return: all available listings, or any count of them after the shuffle
selectPromptsForPromotion(prompts, count) ==
    LET availablePrompts == SelectSeq(prompts, LAMBDA p : ~p.on_promotion)
        ids == {availablePrompts[i].id : i \in 1..Len(availablePrompts)}
    IN  IF Len(availablePrompts) <= count
           THEN {ids}
           ELSE {chosen \in SUBSET ids : Cardinality(chosen) = count}

\* what getPrompts answers
AllPrompts ==
    [i \in 1..Len(Listings) |->
        [id |-> Listings[i], on_promotion |-> catalog[Listings[i]].on_promotion]]

PromoIdle ==
    [pc |-> "idle", today |-> 0, periods |-> <<>>, allPrompts |-> <<>>, events |-> <<>>,
     idx |-> 0, createdPromotions |-> <<>>, notifications |-> <<>>,
     result |-> <<>>, error |-> "none"]

PromoStart(analytics) ==
    [PromoIdle EXCEPT !.pc = "flash", !.today = today,
                      !.periods = Slice(findLowActivityPeriods(analytics), 3),
                      !.allPrompts = AllPrompts, !.idx = 1]

\* the task fires on its Sunday at 22h; fresh hourly analytics are fetched
\* and cached, and getPrompts succeeds
PromoFetch ==
    /\ promo.pc \in {"idle", "done"}
    /\ promoLeft > 0
    /\ \E analytics \in HourlyAnalyticsSamples :
          /\ promo' = PromoStart(analytics)
          /\ hourlyAnalytics' = analytics
    /\ today' = today + 7 * 24
    /\ promoLeft' = promoLeft - 1
    /\ UNCHANGED <<envMinPrice, processVars, serviceCalls, now, catalog, hourlyVars, dailyVars, weeklyVars,
                   firstSunday, promotions>>

\* the task fires and the analytics fetch fails: the expired cache is used
\* when there is one, otherwise the error reaches the method's catch
PromoFetchFails ==
    /\ promo.pc \in {"idle", "done"}
    /\ promoLeft > 0
    /\ \E delivered \in BOOLEAN :
          promo' = IF hourlyAnalytics # NoData
                      THEN PromoStart(hourlyAnalytics)
                      ELSE [PromoIdle EXCEPT
                               !.pc = "done", !.today = today,
                               !.notifications = <<sendNotification("error", delivered)>>,
                               !.error = "caught"]
    /\ today' = today + 7 * 24
    /\ promoLeft' = promoLeft - 1
    /\ UNCHANGED <<envMinPrice, processVars, serviceCalls, now, catalog, hourlyVars, dailyVars, weeklyVars,
                   firstSunday, hourlyAnalytics, promotions>>

\* the task fires, the analytics are there and getPrompts throws
PromoListFails ==
    /\ promo.pc \in {"idle", "done"}
    /\ promoLeft > 0
    /\ \E delivered \in BOOLEAN, analytics \in HourlyAnalyticsSamples :
          /\ promo' = [PromoIdle EXCEPT
                          !.pc = "done", !.today = today,
                          !.notifications = <<sendNotification("error", delivered)>>,
                          !.error = "caught"]
          /\ hourlyAnalytics' = analytics
    /\ today' = today + 7 * 24
    /\ promoLeft' = promoLeft - 1
    /\ UNCHANGED <<envMinPrice, processVars, serviceCalls, now, catalog, hourlyVars, dailyVars, weeklyVars,
                   firstSunday, promotions>>

\* one iteration of the loop over lowActivityPeriods.slice(0, 3): nothing
\* selected, or schedulePromotion succeeds, or it throws and the loop goes on
PromoFlash ==
    /\ promo.pc = "flash"
    /\ promo.idx <= Len(promo.periods)
    /\ LET period == promo.periods[promo.idx]
           nextOccurrence == getNextOccurrence(promo.today, period.day, period.hour)
       IN  \E selectedPrompts \in selectPromptsForPromotion(promo.allPrompts, 3) :
             LET promotion == [name |-> <<"Flash Sale", period.day, period.hour>>,
                               prompt_ids |-> selectedPrompts,
                               discount_percentage |-> flashDiscount,
                               start_time |-> nextOccurrence,
                               end_time |-> nextOccurrence + flashDurationHours]
             IN  \/ /\ selectedPrompts # {}
                    /\ promotions' = Append(promotions, promotion)
                    /\ promo' = [promo EXCEPT !.idx = @ + 1,
                                              !.createdPromotions = Append(@, promotion)]
                 \/ /\ promo' = [promo EXCEPT !.idx = @ + 1]
                    /\ UNCHANGED promotions
    /\ UNCHANGED <<envMinPrice, processVars, serviceCalls, now, catalog, hourlyVars, dailyVars, weeklyVars,
                   firstSunday, today, hourlyAnalytics, promoLeft>>

PromoFlashDone ==
    /\ promo.pc = "flash"
    /\ promo.idx > Len(promo.periods)
    /\ promo' = [promo EXCEPT !.pc = "event", !.idx = 1,
                              !.events = checkUpcomingSpecialEvents(promo.today)]
    /\ UNCHANGED <<envMinPrice, processVars, serviceCalls, now, catalog, hourlyVars, dailyVars, weeklyVars,
                   firstSunday, today, hourlyAnalytics, promotions, promoLeft>>

\* one iteration of the loop over upcomingEvents
PromoEvent ==
    /\ promo.pc = "event"
    /\ promo.idx <= Len(promo.events)
    /\ LET event == promo.events[promo.idx] IN
         \E selectedPrompts \in
                selectPromptsForPromotion(promo.allPrompts, Len(promo.allPrompts)) :
             LET promotion == [name |-> <<event.name>>,
                               prompt_ids |-> selectedPrompts,
                               discount_percentage |-> specialEventDiscount,
                               start_time |-> event.startDate,
                               end_time |-> event.endDate]
             IN  \/ /\ selectedPrompts # {}
                    /\ promotions' = Append(promotions, promotion)
                    /\ promo' = [promo EXCEPT !.idx = @ + 1,
                                              !.createdPromotions = Append(@, promotion)]
                 \/ /\ promo' = [promo EXCEPT !.idx = @ + 1]
                    /\ UNCHANGED promotions
    /\ UNCHANGED <<envMinPrice, processVars, serviceCalls, now, catalog, hourlyVars, dailyVars, weeklyVars,
                   firstSunday, today, hourlyAnalytics, promoLeft>>

\* the info notification when something was created, then return
PromoReturn ==
    /\ promo.pc = "event"
    /\ promo.idx > Len(promo.events)
    /\ \E delivered \in BOOLEAN :
          promo' = [promo EXCEPT
                !.pc = "done",
                !.notifications = IF promo.createdPromotions # <<>>
                                     THEN Append(@, sendNotification("info", delivered))
                                     ELSE @,
                !.result = promo.createdPromotions]
    /\ UNCHANGED <<envMinPrice, processVars, serviceCalls, now, catalog, hourlyVars, dailyVars, weeklyVars,
                   firstSunday, today, hourlyAnalytics, promotions, promoLeft>>

----------------------------------------------------------------------------
(* PromotionService.applyPromotionToPrompt and removePromotionFromPrompt,   *)
(* and the direct calls of the services' functions                          *)

maxDiscountPercentage == 50
maxPromotionDuration == 72

\* the values Math.round(n / d) takes for n >= 0 and d > 0: the nearest
\* integer, and at an exact half either neighbour, since the double product
\* or quotient the code rounds may fall on either side of the half
RoundChoices(n, d) ==
    IF (2 * n) % d = 0 /\ ((2 * n) \div d) % 2 = 1
       THEN {n \div d, n \div d + 1}
       ELSE {RoundDiv(n, d)}

\* Math.round(prompt.price * (1 - actualDiscount / 100)), in cents
ServicePromotionPrices(price, actualDiscount) ==
    {u * 100 : u \in RoundChoices(price * (100 - actualDiscount), 10000)}

\* the quotient cut to a whole number instead of rounded
ServiceNormalPricesTruncated(price, percentage) ==
    {(price \div (100 - percentage)) * 100}

\* Math.round(prompt.price / (1 - prompt.promotion_percentage / 100)), in cents
ServiceNormalPrices(price, percentage) ==
    {u * 100 : u \in RoundChoices(price, 100 - percentage)}

\* Math.round is a function of its argument: a removal from the price and
\* percentage of an earlier removal writes the price that removal wrote
SameAsBefore(price, percentage, normalPrice) ==
    \A k \in 1..Len(serviceCalls) :
        ( /\ serviceCalls[k].op = "removePromotionFromPrompt"
          /\ serviceCalls[k].updated
          /\ serviceCalls[k].before = price
          /\ serviceCalls[k].percentage = percentage )
        => serviceCalls[k].after = normalPrice

\* the entry a call on a listing leaves in serviceCalls
PromptCall(op, promptId, updated, after) ==
    [op |-> op, promptId |-> promptId, updated |-> updated,
     before |-> catalog[promptId].price, after |-> after,
     percentage |-> catalog[promptId].promotion_percentage]

\* applyPromotionToPrompt without its test of prompt.on_promotion
applyPromotionToPromptAgain(promptId, discountPercentage, durationHours) ==
    /\ LET prompt == catalog[promptId]
           actualDiscount == Min(discountPercentage, maxDiscountPercentage)
           actualDuration == Min(durationHours, maxPromotionDuration)
       IN  \E promotionPrice \in ServicePromotionPrices(prompt.price, actualDiscount) :
              /\ catalog' = updatePrompt(catalog, promptId,
                               [price |-> promotionPrice, on_promotion |-> TRUE,
                                promotion_percentage |-> actualDiscount,
                                promotion_end_date |-> now + actualDuration])
              /\ serviceCalls' = Append(serviceCalls,
                    PromptCall("applyPromotionToPrompt", promptId, TRUE, promotionPrice))
    /\ UNCHANGED <<envMinPrice, processVars, now, hourlyVars, dailyVars, weeklyVars, promoVars>>

\* PromotionService.applyPromotionToPrompt: the listing is on promotion
\* already, or the promotion is written, or a call throws and it rethrows
applyPromotionToPrompt(promptId, discountPercentage, durationHours) ==
    /\ LET prompt == catalog[promptId]
           actualDiscount == Min(discountPercentage, maxDiscountPercentage)
           actualDuration == Min(durationHours, maxPromotionDuration)
       IN  \/ /\ prompt.on_promotion
              /\ UNCHANGED catalog
              /\ serviceCalls' = Append(serviceCalls,
                    PromptCall("applyPromotionToPrompt", promptId, FALSE, prompt.price))
           \/ /\ ~prompt.on_promotion
              /\ \E promotionPrice \in ServicePromotionPrices(prompt.price, actualDiscount) :
                    /\ catalog' = updatePrompt(catalog, promptId,
                                     [price |-> promotionPrice, on_promotion |-> TRUE,
                                      promotion_percentage |-> actualDiscount,
                                      promotion_end_date |-> now + actualDuration])
                    /\ serviceCalls' = Append(serviceCalls,
                          PromptCall("applyPromotionToPrompt", promptId, TRUE, promotionPrice))
           \/ /\ UNCHANGED catalog
              /\ serviceCalls' = Append(serviceCalls,
                    PromptCall("applyPromotionToPrompt throws", promptId, FALSE, prompt.price))
    /\ UNCHANGED <<envMinPrice, processVars, now, hourlyVars, dailyVars, weeklyVars, promoVars>>

\* PromotionService.removePromotionFromPrompt: the listing is not on
\* promotion, or the normal price is written, or a call throws and it rethrows
removePromotionFromPrompt(promptId) ==
    /\ LET prompt == catalog[promptId] IN
           \/ /\ ~prompt.on_promotion
              /\ UNCHANGED catalog
              /\ serviceCalls' = Append(serviceCalls,
                    PromptCall("removePromotionFromPrompt", promptId, FALSE, prompt.price))
           \/ /\ prompt.on_promotion
              /\ \E normalPrice \in ServiceNormalPrices(prompt.price, prompt.promotion_percentage) :
                    /\ SameAsBefore(prompt.price, prompt.promotion_percentage, normalPrice)
                    /\ catalog' = updatePrompt(catalog, promptId,
                                     [price |-> normalPrice, on_promotion |-> FALSE,
                                      promotion_percentage |-> 0,
                                      promotion_end_date |-> -1])
                    /\ serviceCalls' = Append(serviceCalls,
                          PromptCall("removePromotionFromPrompt", promptId, TRUE, normalPrice))
           \/ /\ UNCHANGED catalog
              /\ serviceCalls' = Append(serviceCalls,
                    PromptCall("removePromotionFromPrompt throws", promptId, FALSE, prompt.price))
    /\ UNCHANGED <<envMinPrice, processVars, now, hourlyVars, dailyVars, weeklyVars, promoVars>>

\* OptimizationEngine.applyPromotion(prompt) on the listing as the catalog
\* has it; a failing write is caught and null is returned
applyPromotion(promptId) ==
    /\ LET prompt == catalog[promptId]
           promotionPrice == PromotionPrice(prompt.price, weeklyPromotionPercentage)
       IN  \/ /\ catalog' = updatePrompt(catalog, promptId,
                              [price |-> promotionPrice, on_promotion |-> TRUE,
                               promotion_percentage |-> weeklyPromotionPercentage,
                               promotion_end_date |-> now + weeklyPromotionDays * 24])
              /\ serviceCalls' = Append(serviceCalls,
                    PromptCall("applyPromotion", promptId, TRUE, promotionPrice))
           \/ /\ UNCHANGED catalog
              /\ serviceCalls' = Append(serviceCalls,
                    PromptCall("applyPromotion null", promptId, FALSE, prompt.price))
    /\ UNCHANGED <<envMinPrice, processVars, now, hourlyVars, dailyVars, weeklyVars, promoVars>>

\* OptimizationEngine.removePromotion(prompt) on a listing that is on
\* promotion, as weeklyRenovation calls it
removePromotion(promptId) ==
    /\ catalog[promptId].on_promotion
    /\ LET prompt == catalog[promptId]
           normalPrice == NormalPrice(prompt.price, prompt.promotion_percentage)
       IN  \/ /\ catalog' = updatePrompt(catalog, promptId,
                              [price |-> normalPrice, on_promotion |-> FALSE,
                               promotion_percentage |-> 0])
              /\ serviceCalls' = Append(serviceCalls,
                    PromptCall("removePromotion", promptId, TRUE, normalPrice))
           \/ /\ UNCHANGED catalog
              /\ serviceCalls' = Append(serviceCalls,
                    PromptCall("removePromotion null", promptId, FALSE, prompt.price))
    /\ UNCHANGED <<envMinPrice, processVars, now, hourlyVars, dailyVars, weeklyVars, promoVars>>

\* one call of getNextOccurrence, at any hour of two weeks
GetNextOccurrenceCall ==
    /\ serviceCalls = <<>>
    /\ \E t \in 0..MaxInstant, day \in -1..6, hour \in 0..23 :
          serviceCalls' = <<[op |-> "getNextOccurrence", today |-> t, day |-> day,
                             hour |-> hour, result |-> getNextOccurrence(t, day, hour)]>>
    /\ UNCHANGED <<envMinPrice, processVars, now, catalog, hourlyVars, dailyVars, weeklyVars, promoVars>>

\* one call of checkUpcomingSpecialEvents, at any hour of two weeks
CheckUpcomingSpecialEventsCall ==
    /\ serviceCalls = <<>>
    /\ \E t \in 0..MaxInstant :
          serviceCalls' = <<[op |-> "checkUpcomingSpecialEvents", today |-> t,
                             result |-> checkUpcomingSpecialEvents(t)]>>
    /\ UNCHANGED <<envMinPrice, processVars, now, catalog, hourlyVars, dailyVars, weeklyVars, promoVars>>

\* one call of findLowActivityPeriods on the cached hourly analytics
FindLowActivityPeriodsCall ==
    /\ serviceCalls = <<>>
    /\ serviceCalls' = <<[op |-> "findLowActivityPeriods", analytics |-> hourlyAnalytics,
                          result |-> findLowActivityPeriods(hourlyAnalytics)]>>
    /\ UNCHANGED <<envMinPrice, processVars, now, catalog, hourlyVars, dailyVars, weeklyVars, promoVars>>

----------------------------------------------------------------------------
\* an hour passes
Tick ==
    /\ now < MaxNow
    /\ now' = now + 1
    /\ UNCHANGED <<envMinPrice, processVars, serviceCalls, catalog, hourlyVars, dailyVars, weeklyVars, promoVars>>

----------------------------------------------------------------------------
(* Initial states.  The catalog and the variation storage outlive the     *)
(* process, so a process starts on whatever earlier runs left there.        *)

Slots == {1, 2}

\* stored variants per listing: two listings can be tested, one cannot
VariantCount(id) == IF id = "p3" THEN 1 ELSE 2

\* a listing as published: not on promotion, nothing refreshed yet
Published(price, testing, age) ==
    [price |-> price, title |-> Title(-1), currently_testing |-> testing,
     on_promotion |-> FALSE, promotion_percentage |-> 0, promotion_end_date |-> -1,
     age_days |-> age, last_refresh_date |-> -1]

----------------------------------------------------------------------------
(* startSystem and its restarts *)

\* startSystem up to its first await after initializeServices: the services
\* fail to initialize and the restart is set, or setupExpressServer starts
\* the server and setupScheduledTasks registers the cron tasks
StartSystem ==
    /\ system.pc = "start"
    /\ \/ \E delivered \in BOOLEAN :
             system' = [system EXCEPT
                 !.pc = "retry", !.starts = @ + 1,
                 !.notifications = Append(@, sendNotification("error", delivered))]
       \/ system' = [system EXCEPT
              !.pc = "check", !.starts = @ + 1,
              !.servers = @ + 1, !.taskSets = @ + 1]
    /\ UNCHANGED <<envMinPrice, now, catalog, serviceCalls, hourlyAnalyticsCache, refundStats,
                   hourlyVars, dailyVars, weeklyVars, promoVars>>

\* PromptManager.checkExistingPrompts: true when getPrompts answers with
\* listings, false when it answers with none or throws
CheckExistingPrompts ==
    /\ system.pc = "check"
    /\ \/ /\ DOMAIN catalog # {}
          /\ \E delivered \in BOOLEAN :
                system' = [system EXCEPT
                    !.pc = "started", !.isSystemInitialized = TRUE,
                    !.notifications = Append(@, sendNotification("info", delivered))]
       \/ system' = [system EXCEPT !.pc = "publish"]
    /\ UNCHANGED <<envMinPrice, now, catalog, serviceCalls, hourlyAnalyticsCache, refundStats,
                   hourlyVars, dailyVars, weeklyVars, promoVars>>

\* PromptManager.publishInitialPrompts: the listings of the prompts file
\* are created (here none or one) and the system is started, or the call
\* throws and startSystem sets the restart
PublishInitialPrompts ==
    /\ system.pc = "publish"
    /\ \/ /\ \E delivered \in BOOLEAN :
                system' = [system EXCEPT
                    !.pc = "started", !.isSystemInitialized = TRUE,
                    !.notifications = @ \o <<sendNotification("success", TRUE),
                                             sendNotification("info", delivered)>>]
          /\ \/ UNCHANGED catalog
             \/ /\ DOMAIN catalog = {}
                /\ catalog' = [id \in {"p1"} |-> Published(10000, FALSE, 0)]
       \/ /\ \E delivered \in BOOLEAN :
                system' = [system EXCEPT
                    !.pc = "retry",
                    !.notifications = Append(@, sendNotification("error", delivered))]
          /\ UNCHANGED catalog
    /\ UNCHANGED <<envMinPrice, now, serviceCalls, hourlyAnalyticsCache, refundStats,
                   hourlyVars, dailyVars, weeklyVars, promoVars>>

\* the timer set by setTimeout(startSystem, 5 * 60 * 1000) fires
RestartSystem ==
    /\ system.pc = "retry"
    /\ system.starts < MaxStarts
    /\ system' = [system EXCEPT !.pc = "start"]
    /\ UNCHANGED <<envMinPrice, now, catalog, serviceCalls, hourlyAnalyticsCache, refundStats,
                   hourlyVars, dailyVars, weeklyVars, promoVars>>

----------------------------------------------------------------------------
(* CustomerService: the refund handlers behind the webhooks *)

maxDaysAfterPurchase == 3
maxRefundsPerUser == 5
refundWindowDays == 7

\* days since the purchase and earlier refunds of the user, as the API
\* reports them
RefundDays == {0, 3, 4, 7, 8}
RefundCounts == {4, 5}

isAutomaticallyApproved(daysSincePurchase, userRefunds) ==
    /\ daysSincePurchase <= maxDaysAfterPurchase
    /\ userRefunds < maxRefundsPerUser

\* the entry a handled refund leaves in serviceCalls: the calls of
\* approveRefund and denyRefund it made, what it sent and what it returned
RefundCall(op, daysSincePurchase, userRefunds, apiCalls, sent, result) ==
    [op |-> op, daysSincePurchase |-> daysSincePurchase, userRefunds |-> userRefunds,
     apiCalls |-> apiCalls, notifications |-> sent, result |-> result]

Counted(field) ==
    [refundStats EXCEPT !.refundsProcessed = @ + 1, ![field] = @ + 1]

\* CustomerService.handleRefundRequest, called by the refund-request
\* webhook that setupExpressServer registers
handleRefundRequest(daysSincePurchase, userRefunds) ==
    /\ system.servers > 0
    /\ Len(serviceCalls) < MaxRefunds
    /\ LET entry(apiCalls, sent, result) ==
               RefundCall("handleRefundRequest", daysSincePurchase, userRefunds,
                          apiCalls, sent, result)
           failed(apiCalls) ==
               \E delivered \in BOOLEAN :
                  /\ serviceCalls' = Append(serviceCalls,
                         entry(apiCalls, <<sendNotification("error", delivered)>>,
                               [success |-> FALSE]))
                  /\ UNCHANGED refundStats
       IN  \/ failed(<<>>)
           \/ /\ isAutomaticallyApproved(daysSincePurchase, userRefunds)
              /\ \/ failed(<<[name |-> "approveRefund", ok |-> FALSE]>>)
                 \/ /\ refundStats' = Counted("refundsApproved")
                    /\ serviceCalls' = Append(serviceCalls,
                          entry(<<[name |-> "approveRefund", ok |-> TRUE]>>, <<>>,
                                [success |-> TRUE, outcome |-> "autoApproved"]))
           \/ /\ ~isAutomaticallyApproved(daysSincePurchase, userRefunds)
              /\ daysSincePurchase > refundWindowDays
              /\ \/ failed(<<[name |-> "denyRefund", ok |-> FALSE]>>)
                 \/ /\ refundStats' = Counted("refundsDenied")
                    /\ serviceCalls' = Append(serviceCalls,
                          entry(<<[name |-> "denyRefund", ok |-> TRUE]>>, <<>>,
                                [success |-> TRUE, outcome |-> "autoDenied"]))
           \/ /\ ~isAutomaticallyApproved(daysSincePurchase, userRefunds)
              /\ daysSincePurchase <= refundWindowDays
              /\ \E delivered \in BOOLEAN :
                    serviceCalls' = Append(serviceCalls,
                        entry(<<>>, <<sendNotification("info", delivered)>>,
                              [success |-> TRUE, outcome |-> "needsManualReview"]))
              /\ UNCHANGED refundStats
    /\ UNCHANGED <<envMinPrice, now, catalog, system, hourlyAnalyticsCache,
                   hourlyVars, dailyVars, weeklyVars, promoVars>>

\* CustomerService.handleRefundInQuestion, called by handleCustomerQuestion
\* for a question of the refund category: it answers with a text
handleRefundInQuestion(daysSincePurchase, userRefunds) ==
    /\ system.servers > 0
    /\ Len(serviceCalls) < MaxRefunds
    /\ LET entry(reply) ==
               RefundCall("handleRefundInQuestion", daysSincePurchase, userRefunds,
                          <<>>, <<>>, [reply |-> reply])
       IN  \/ /\ serviceCalls' = Append(serviceCalls, entry("fallback"))
              /\ UNCHANGED refundStats
           \/ /\ isAutomaticallyApproved(daysSincePurchase, userRefunds)
              /\ refundStats' = Counted("refundsApproved")
              /\ serviceCalls' = Append(serviceCalls, entry("approved"))
           \/ /\ ~isAutomaticallyApproved(daysSincePurchase, userRefunds)
              /\ serviceCalls' = Append(serviceCalls, entry("procedure"))
              /\ UNCHANGED refundStats
    /\ UNCHANGED <<envMinPrice, now, catalog, system, hourlyAnalyticsCache,
                   hourlyVars, dailyVars, weeklyVars, promoVars>>

----------------------------------------------------------------------------
(* AnalyticsService.getHourlyAnalytics *)

hourlyAnalyticsTtlMinutes == 30

\* the numbers of days callers ask for
AnalyticsDays == {7, 30}

\* the cached series passes the test of getHourlyAnalytics(days)
CachedFor(days) ==
    /\ hourlyAnalytics # NoData
    /\ hourlyAnalyticsCache.days = days
    /\ (now - hourlyAnalyticsCache.timestamp) * 60 < hourlyAnalyticsTtlMinutes

\* AnalyticsService.getHourlyAnalytics(days): the cached series, or a fresh
\* one that replaces it, or after a failing fetch the cached series if
\* there is one, or else the error (no series: the call threw)
getHourlyAnalytics(days) ==
    /\ Len(serviceCalls) < MaxFetches
    /\ LET entry(fetch, result) ==
               [op |-> "getHourlyAnalytics", days |-> days, at |-> now,
                fetch |-> fetch, threw |-> (result = NoData), result |-> result]
       IN  \/ /\ CachedFor(days)
              /\ serviceCalls' = Append(serviceCalls, entry("none", hourlyAnalytics))
              /\ UNCHANGED <<hourlyAnalytics, hourlyAnalyticsCache>>
           \/ /\ ~CachedFor(days)
              /\ hourlyAnalytics' = [days |-> days, fetchedAt |-> now]
              /\ hourlyAnalyticsCache' = [days |-> days, timestamp |-> now]
              /\ serviceCalls' = Append(serviceCalls, entry("ok", hourlyAnalytics'))
           \/ /\ ~CachedFor(days)
              /\ serviceCalls' = Append(serviceCalls,
                    entry("failed", hourlyAnalytics))
              /\ UNCHANGED <<hourlyAnalytics, hourlyAnalyticsCache>>
    /\ UNCHANGED <<envMinPrice, now, catalog, system, refundStats, hourlyVars, dailyVars,
                   weeklyVars, firstSunday, today, promotions, promo, promoLeft>>

\* the process before startSystem is called: nothing registered, nothing sent
SystemStopped ==
    [pc |-> "start", starts |-> 0, servers |-> 0, taskSets |-> 0,
     isSystemInitialized |-> FALSE, notifications |-> <<>>]

InitProcess(hourlyTasks, dailyTasks, weeklyTasks, promoTasks) ==
    /\ now = 0
    /\ promptStats = [data |-> NoData, timestamp |-> 0]
    /\ hourly = HourlyIdle
    /\ hourlyLeft = hourlyTasks
    /\ timers = <<>>
    /\ daily = [r \in Slots |-> DailyIdle]
    /\ dailyLeft = dailyTasks
    /\ weekly = WeeklyIdle
    /\ weeklyLeft = weeklyTasks
    /\ today = 22
    /\ hourlyAnalytics = NoData
    /\ promotions = <<>>
    /\ promo = PromoIdle
    /\ promoLeft = promoTasks
    /\ serviceCalls = <<>>
    /\ system = SystemStopped
    /\ hourlyAnalyticsCache = [days |-> 0, timestamp |-> 0]
    /\ refundStats = [refundsProcessed |-> 0, refundsApproved |-> 0, refundsDenied |-> 0]

InitStorage(ids) ==
    /\ variations = [id \in ids |->
                        [count |-> VariantCount(id), tested_count |-> 0, results |-> <<>>]]
    /\ history = [id \in ids |->
                        [applied |-> 0, exhausted |-> FALSE,
                         startedAfterExhausted |-> FALSE, startedWhileRunning |-> FALSE]]

\* two listings, some of them left with an experiment marked as running
InitHourly ==
    /\ envMinPrice \in {0, 25}
    /\ catalog \in [{"p1", "p2"} ->
                        {Published(p * 100, t, 45) : p \in InitialPrices, t \in BOOLEAN}]
    /\ InitStorage({"p1", "p2"})
    /\ firstSunday = 60
    /\ InitProcess(MaxHourlyRuns, 0, 0, 0)

\* three listings at the same price
InitDaily ==
    /\ envMinPrice = 0
    /\ catalog \in [{"p1", "p2", "p3"} -> {Published(10000, t, 45) : t \in BOOLEAN}]
    /\ InitStorage({"p1", "p2", "p3"})
    /\ firstSunday = 60
    /\ InitProcess(0, MaxWideRuns, 0, 0)

\* one listing, no experiment running
InitOne ==
    /\ envMinPrice = 0
    /\ firstSunday = 60
    /\ catalog = [id \in {"p1"} |-> Published(10000, FALSE, 45)]
    /\ InitStorage({"p1"})

\* one listing at either limit of the price range
InitPricing ==
    /\ envMinPrice \in {0, 25}
    /\ catalog \in [{"p1"} -> {Published(p * 100, FALSE, 45) : p \in {25, 150}}]
    /\ InitStorage({"p1"})
    /\ firstSunday = 60
    /\ InitProcess(MaxHourlyRuns, 0, MaxWeeklyRuns, 0)

\* one listing, with or without a running experiment, under both cadences
InitCadences ==
    /\ envMinPrice = 0
    /\ catalog \in [{"p1"} -> {Published(10000, t, 45) : t \in BOOLEAN}]
    /\ InitStorage({"p1"})
    /\ firstSunday = 60
    /\ InitProcess(MaxHourlyRuns, MaxWideRuns, 0, 0)

\* four listings: none, the first or all of them on promotion already
InitPromotions ==
    /\ envMinPrice = 0
    /\ \E onPromotion \in {{}, {"p1"}, {"p1", "p2", "p3", "p4"}} :
          catalog = [id \in {"p1", "p2", "p3", "p4"} |->
                        [Published(10000, FALSE, 45) EXCEPT
                            !.on_promotion = (id \in onPromotion),
                            !.promotion_percentage = IF id \in onPromotion THEN 15 ELSE 0]]
    /\ InitStorage({"p1", "p2", "p3", "p4"})
    /\ firstSunday \in FirstSundays
    /\ InitProcess(0, 0, 0, MaxPromoRuns)

\* four listings, none under test
InitCaps ==
    /\ envMinPrice = 0
    /\ catalog = [id \in {"p1", "p2", "p3", "p4"} |-> Published(10000, FALSE, 45)]
    /\ InitStorage({"p1", "p2", "p3", "p4"})
    /\ firstSunday = 60
    /\ InitProcess(0, MaxWideRuns, 0, 0)

\* one listing at any whole price, and no scheduled task
InitRoundTrip ==
    /\ envMinPrice = 0
    /\ catalog \in [{"p1"} -> {Published(p * 100, FALSE, 45) : p \in 1..MaxPrice}]
    /\ InitStorage({"p1"})
    /\ firstSunday = 60
    /\ InitProcess(0, 0, 0, 0)

\* no scheduled task; the process starts in either of the Sundays
InitOccurrence ==
    /\ envMinPrice = 0
    /\ firstSunday \in FirstSundays
    /\ catalog = [id \in {"p1"} |-> Published(10000, FALSE, 45)]
    /\ InitStorage({"p1"})
    /\ InitProcess(0, 0, 0, 0)

\* no scheduled task, and hourly analytics in the cache
InitLowActivity ==
    /\ envMinPrice = 0
    /\ firstSunday = 60
    /\ catalog = [id \in {"p1"} |-> Published(10000, FALSE, 45)]
    /\ InitStorage({"p1"})
    /\ now = 0
    /\ promptStats = [data |-> NoData, timestamp |-> 0]
    /\ hourly = HourlyIdle
    /\ hourlyLeft = 0
    /\ timers = <<>>
    /\ daily = [r \in Slots |-> DailyIdle]
    /\ dailyLeft = 0
    /\ weekly = WeeklyIdle
    /\ weeklyLeft = 0
    /\ today = 22
    /\ hourlyAnalytics \in ActivityInputs
    /\ promotions = <<>>
    /\ promo = PromoIdle
    /\ promoLeft = 0
    /\ serviceCalls = <<>>
    /\ system = SystemStopped
    /\ hourlyAnalyticsCache = [days |-> 0, timestamp |-> 0]
    /\ refundStats = [refundsProcessed |-> 0, refundsApproved |-> 0, refundsDenied |-> 0]

\* one listing at either limit of the price range, a weekly and a daily task
InitLongTerm ==
    /\ envMinPrice = 0
    /\ catalog \in [{"p1"} -> {Published(p * 100, FALSE, 45) : p \in {25, 150}}]
    /\ InitStorage({"p1"})
    /\ firstSunday = 60
    /\ InitProcess(0, MaxWideRuns, MaxWideRuns, 0)

\* four listings of various ages, some of them on the weekly promotion
InitRenovation ==
    /\ envMinPrice = 0
    /\ \E ages \in RenovationAges, promoted \in RenovationPromotions :
          catalog = [id \in {"p1", "p2", "p3", "p4"} |->
                        IF promoted[ListingNumber[id]]
                           THEN [Published(8500, FALSE, ages[ListingNumber[id]]) EXCEPT
                                    !.on_promotion = TRUE,
                                    !.promotion_percentage = weeklyPromotionPercentage,
                                    !.promotion_end_date = weeklyPromotionDays * 24]
                           ELSE Published(10000, FALSE, ages[ListingNumber[id]])]
    /\ InitStorage({"p1", "p2", "p3", "p4"})
    /\ firstSunday = 60
    /\ InitProcess(0, 0, MaxWideRuns, 0)

InitExperiment == InitOne /\ InitProcess(0, MaxDailyRuns, 0, 0)

InitOverlap == InitOne /\ InitProcess(0, MaxOverlapRuns, 0, 0)

HourlyNext ==
    \/ HourlyFetchCached
    \/ HourlyFetchFresh
    \/ HourlyFetchFails
    \/ HourlySkip
    \/ HourlyUpdate
    \/ HourlyUpdateFails
    \/ HourlyReturn

DailyNext(r) ==
    \/ DailyFetch(r)
    \/ DailyFetchFails(r)
    \/ DailyTest(r)
    \/ DailyTestDone(r)
    \/ DailyImprove(r)
    \/ DailyImproveDone(r)
    \/ DailyPrice(r)
    \/ DailyReturn(r)

WeeklyNext ==
    \/ WeeklyFetch
    \/ WeeklyFetchFails
    \/ WeeklyRefresh
    \/ WeeklyRefreshDone
    \/ WeeklyRemove
    \/ WeeklyRemoveDone
    \/ WeeklyApply
    \/ WeeklyReport

PromoNext ==
    \/ PromoFetch
    \/ PromoFetchFails
    \/ PromoListFails
    \/ PromoFlash
    \/ PromoFlashDone
    \/ PromoEvent
    \/ PromoReturn

Conclude == ConcludeFails \/ ConcludeStores

\* a conclusion all of whose calls succeed
ConcludeSucceeds ==
    /\ ConcludeStores
    /\ ~catalog'[Head(timers).promptId].currently_testing

\* the hourly cadence alone
SpecHourly == InitHourly /\ [][HourlyNext \/ Tick]_vars

\* hourly runs and a daily run over the same catalog, in any interleaving
SpecCadences == InitCadences /\ [][HourlyNext \/ DailyNext(1) \/ Conclude \/ Tick]_vars

\* the weekly promotion planning
SpecPromotions == InitPromotions /\ [][PromoNext]_vars

\* hourly price changes between weekly promotions
SpecPricing == InitPricing /\ [][HourlyNext \/ WeeklyNext \/ Tick]_vars

\* the daily cadence, one run at a time, with the deferred conclusions
SpecDaily == InitDaily /\ [][DailyNext(1) \/ Conclude]_vars

\* a daily run over more listings than any of its batches takes
SpecCaps == InitCaps /\ [][DailyNext(1) \/ Conclude]_vars

\* the life of one listing's experiment over successive daily runs
SpecExperiment == InitExperiment /\ [][DailyNext(1) \/ Conclude]_vars

\* successive daily runs while the process keeps running and every call of a
\* conclusion succeeds: a registered timer fires in the end
SpecConclusion ==
    /\ InitExperiment
    /\ [][DailyNext(1) \/ ConcludeSucceeds]_vars
    /\ WF_vars(ConcludeSucceeds)

\* promotions applied to and removed from one listing by direct calls
RoundTripNext ==
    /\ Len(serviceCalls) < MaxCalls
    /\ \/ \E discountPercentage \in 0..MaxDiscount, durationHours \in {3, 96} :
             applyPromotionToPrompt("p1", discountPercentage, durationHours)
       \/ removePromotionFromPrompt("p1")
       \/ applyPromotion("p1")
       \/ removePromotion("p1")

SpecRoundTrip == InitRoundTrip /\ [][RoundTripNext]_vars

\* the discounts a further cycle may ask for: the one of the cycles so far
CycleDiscounts ==
    LET used == {serviceCalls[k].percentage :
                    k \in {j \in 1..Len(serviceCalls) :
                              /\ serviceCalls[j].op = "removePromotionFromPrompt"
                              /\ serviceCalls[j].updated}}
                \cup (IF catalog["p1"].on_promotion
                         THEN {catalog["p1"].promotion_percentage} ELSE {})
    IN  IF used = {} THEN 1..maxDiscountPercentage ELSE used

\* consecutive cycles of applyPromotionToPrompt and removePromotionFromPrompt
\* on one listing, all at one discount
CyclesNext ==
    /\ Len(serviceCalls) < 2 * MaxCycles
    /\ \/ \E discountPercentage \in CycleDiscounts :
             applyPromotionToPrompt("p1", discountPercentage, 3)
       \/ removePromotionFromPrompt("p1")

SpecCycles == InitRoundTrip /\ [][CyclesNext]_vars

\* one listing or none in the catalog, and no scheduled task started
InitServices ==
    /\ envMinPrice = 0
    /\ firstSunday = 60
    /\ catalog \in {[id \in {} |-> Published(10000, FALSE, 45)],
                    [id \in {"p1"} |-> Published(10000, FALSE, 45)]}
    /\ InitStorage({"p1"})
    /\ InitProcess(0, 0, 0, 0)

\* the process from startSystem on, with the refund webhooks
SpecSystem ==
    /\ InitServices
    /\ [][ \/ StartSystem \/ CheckExistingPrompts \/ PublishInitialPrompts \/ RestartSystem
           \/ \E daysSincePurchase \in RefundDays, userRefunds \in RefundCounts :
                 \/ handleRefundRequest(daysSincePurchase, userRefunds)
                 \/ handleRefundInQuestion(daysSincePurchase, userRefunds) ]_vars

\* calls of getHourlyAnalytics for either number of days, as time passes
SpecAnalytics ==
    /\ InitServices
    /\ [][(\E days \in AnalyticsDays : getHourlyAnalytics(days)) \/ Tick]_vars

\* the calendar functions on their own
SpecOccurrence ==
    InitOccurrence /\ [][GetNextOccurrenceCall \/ CheckUpcomingSpecialEventsCall]_vars

\* findLowActivityPeriods on its own
SpecLowActivity == InitLowActivity /\ [][FindLowActivityPeriodsCall]_vars

\* a weekly run and a daily run over the same listing, in any interleaving
SpecLongTerm == InitLongTerm /\ [][WeeklyNext \/ DailyNext(1) \/ Conclude]_vars

\* a weekly run over more listings than any of its batches takes
SpecRenovation == InitRenovation /\ [][WeeklyNext]_vars

\* daily runs that may overlap, with the deferred conclusions
SpecOverlap == InitOverlap /\ [][(\E r \in Slots : DailyNext(r)) \/ Conclude]_vars

----------------------------------------------------------------------------
(* Properties *)

Range(seq) == {seq[i] : i \in 1..Len(seq)}

\* C1: a listing whose snapshot has currently_testing = true gets no
\* updatePromptPrice call and no entry in the list of an hourly run, and
\* optimizeLongTermPrice is not invoked for it in a daily run
C1_NoPricingWhileTesting ==
    /\ \A i \in 1..Len(hourly.stats) :
          hourly.stats[i].currently_testing =>
             /\ \A k \in 1..Len(hourly.calls) : hourly.calls[k].id # hourly.stats[i].id
             /\ \A k \in 1..Len(hourly.updatedPrompts) :
                    hourly.updatedPrompts[k].id # hourly.stats[i].id
             /\ \A k \in 1..Len(hourly.result) : hourly.result[k].id # hourly.stats[i].id
    /\ \A r \in Slots : \A i \in 1..Len(daily[r].allData) :
          daily[r].allData[i].currently_testing =>
             daily[r].allData[i].id \notin Range(daily[r].priced)

\* an hourly and a daily run are over, and each had in its snapshot a listing
\* under test that otherwise met a pricing condition
C1_Witness ==
    /\ hourly.pc = "done"
    /\ hourly.error = "none"
    /\ \E i \in 1..Len(hourly.stats) :
          /\ hourly.stats[i].currently_testing
          /\ hourly.stats[i].conversion_rate > 12
          /\ hourly.stats[i].views_last_hour > 20
    /\ daily[1].pc = "done"
    /\ daily[1].error = "none"
    /\ \E i \in 1..Len(daily[1].allData) :
          /\ daily[1].allData[i].currently_testing
          /\ daily[1].allData[i].total_views > 300
          /\ ~daily[1].allData[i].price_changed_recently

\* C2: a listing has at most one apply_best_variation over all daily runs,
\* and no start_ab_test once all its variants have been tested
C2_SingleWinner ==
    \A id \in DOMAIN history :
        /\ history[id].applied <= 1
        /\ ~history[id].startedAfterExhausted

\* C3: startABTest never starts a variant for a listing that has
\* currently_testing = true in the catalog or a pending conclusion timer
C3_OneRunningVariant ==
    \A id \in DOMAIN history : ~history[id].startedWhileRunning

\* C4: every increase applied by an hourly run has
\* minPrice <= newPrice <= maxPrice and newPrice > oldPrice
C4_IncreaseWithinRange ==
    \A i \in 1..Len(hourly.updatedPrompts) :
        LET u == hourly.updatedPrompts[i] IN
            u.reason = "increase_high_conversion" =>
                /\ minPromptPrice <= u.newPrice
                /\ u.newPrice <= maxPromptPrice
                /\ u.newPrice > u.oldPrice

\* C5: every decrease applied by an hourly run has
\* minPrice <= newPrice <= maxPrice and newPrice < oldPrice
C5_DecreaseWithinRange ==
    \A i \in 1..Len(hourly.updatedPrompts) :
        LET u == hourly.updatedPrompts[i] IN
            u.reason = "decrease_low_conversion" =>
                /\ minPromptPrice <= u.newPrice
                /\ u.newPrice <= maxPromptPrice
                /\ u.newPrice < u.oldPrice

\* C6: when an hourly run is over, every listing of the snapshot that met the
\* increase or decrease condition has received its updatePromptPrice call,
\* also after the call for an earlier listing failed
C6_BatchContinues ==
    (hourly.pc = "done" /\ hourly.error # "fetch") =>
        \A i \in 1..Len(hourly.stats) :
            HourlyDecision(hourly.stats[i]) # <<>> =>
                \E k \in 1..Len(hourly.calls) : hourly.calls[k].id = hourly.stats[i].id

\* C7: the list an hourly run returns has exactly one entry for each listing
\* whose updatePromptPrice call succeeded in the run and none for any other
C7_ListReflectsWrites ==
    hourly.pc = "done" =>
        \A id \in DOMAIN catalog :
            Cardinality({k \in 1..Len(hourly.result) : hourly.result[k].id = id})
              = Cardinality({k \in 1..Len(hourly.calls) :
                                hourly.calls[k].id = id /\ hourly.calls[k].ok})

\* a cadence run that ended on an error returned [] after exactly one
\* notification, of type error
ErrorReported(run) ==
    (run.pc = "done" /\ run.error # "none") =>
        /\ run.result = <<>>
        /\ Len(run.notifications) = 1
        /\ run.notifications[1].type = "error"

\* C8: a run of any cadence in which an error occurred, a failing fetch
\* included, returns an empty list and sends exactly one error notification
C8_ErrorReturnsEmptyAndNotifies ==
    /\ ErrorReported(hourly)
    /\ \A r \in Slots : ErrorReported(daily[r])
    /\ ErrorReported(weekly)

\* C9: no listing is in two registered promotions whose [start_time,
\* end_time) windows intersect
C9_NoOverlappingWindows ==
    \A i \in 1..Len(promotions) : \A j \in 1..Len(promotions) :
        i < j =>
            \/ promotions[i].prompt_ids \cap promotions[j].prompt_ids = {}
            \/ promotions[i].end_time <= promotions[j].start_time
            \/ promotions[j].end_time <= promotions[i].start_time

\* the listings a snapshot offers for a new experiment
C10_Candidates(allData) ==
    SelectSeq(allData, LAMBDA p : /\ p.total_views > 100
                                  /\ ~p.currently_testing
                                  /\ p.conversion_rate < 12)

\* C10: the listings a daily run passes to startABTest are, in order, the
\* first of at most 2 listings of the snapshot with total_views > 100,
\* currently_testing = false and conversion_rate < 12 %
C10_SelectionRule ==
    \A r \in Slots :
        LET cands == C10_Candidates(daily[r].allData) IN
            /\ Len(daily[r].tested) <= 2
            /\ Len(daily[r].tested) <= Len(cands)
            /\ \A k \in 1..Len(daily[r].tested) : daily[r].tested[k] = cands[k].id
            /\ daily[r].pc \in {"improve", "price", "done"} /\ daily[r].error = "none" =>
                  Len(daily[r].tested) = IF Len(cands) < 2 THEN Len(cands) ELSE 2

\* a daily run is over whose snapshot offered three candidates, two of which
\* were passed to startABTest
C10_Witness ==
    /\ daily[1].pc = "done"
    /\ Len(C10_Candidates(daily[1].allData)) = 3
    /\ Len(daily[1].tested) = 2

\* C11: tested_count never decreases, every conclusion that stores adds
\* exactly one result and one to tested_count, and the stored results are as
\* many as tested_count
C11_ResultsMatchTestedCount ==
    [][\A id \in DOMAIN variations :
          /\ variations'[id].tested_count >= variations[id].tested_count
          /\ Len(variations'[id].results) = variations'[id].tested_count
          /\ variations'[id] # variations[id] =>
                variations'[id].tested_count = variations[id].tested_count + 1]_vars

\* both variants of a listing have been concluded
C11_Witness ==
    /\ variations["p1"].tested_count = 2
    /\ Len(variations["p1"].results) = 2

\* C12: currently_testing goes from true to false only in the conclusion that
\* has just stored the result of that listing's variant; a conclusion that
\* stores nothing leaves the catalog as it is and is not registered again
C12_ClearedOnlyAfterStore ==
    [][/\ \A id \in DOMAIN catalog :
            (catalog[id].currently_testing /\ ~catalog'[id].currently_testing) =>
                /\ timers # <<>>
                /\ Head(timers).promptId = id
                /\ variations'[id].tested_count = variations[id].tested_count + 1
                /\ variations'[id].results[Len(variations'[id].results)].title
                      = Title(Head(timers).variationIndex)
       /\ (Len(timers') < Len(timers) /\ variations' = variations) =>
                /\ catalog' = catalog
                /\ timers' = Tail(timers)]_vars

\* a started experiment whose conclusion failed: still marked as running,
\* nothing stored, no conclusion pending
C12_Witness ==
    /\ catalog["p1"].currently_testing
    /\ timers = <<>>
    /\ variations["p1"].tested_count = 0

\* the listing whose experiment is followed
ExperimentListings == {"p1"}

\* C13: a listing under test with k results stored comes to have k + 1
\* results stored and currently_testing = false
C13_EventuallyConcluded ==
    \A id \in ExperimentListings : \A k \in 0..1 :
        (catalog[id].currently_testing /\ variations[id].tested_count = k)
            ~> (/\ ~catalog[id].currently_testing
                /\ variations[id].tested_count = k + 1
                /\ Len(variations[id].results) = k + 1)

\* an experiment is concluded while the daily run that started it has not
\* returned yet
C13_Witness ==
    /\ daily[1].pc \in {"test", "improve", "price"}
    /\ \E k \in 1..Len(daily[1].actions) :
          /\ daily[1].actions[k].type = "start_ab_test"
          /\ daily[1].actions[k].promptId = "p1"
    /\ ~catalog["p1"].currently_testing
    /\ variations["p1"].tested_count = 1

\* the number of entries of actions whose type is one of types
CountOfTypes(actions, types) ==
    Cardinality({k \in 1..Len(actions) : actions[k].type \in types})

\* C14: a daily run has at most 2 start_ab_test / apply_best_variation
\* actions and at most 3 improve_content actions
C14_DailyBatchCaps ==
    \A r \in Slots :
        /\ CountOfTypes(daily[r].actions, {"start_ab_test", "apply_best_variation"}) <= 2
        /\ CountOfTypes(daily[r].actions, {"improve_content"}) <= 3
        /\ CountOfTypes(daily[r].result, {"start_ab_test", "apply_best_variation"}) <= 2
        /\ CountOfTypes(daily[r].result, {"improve_content"}) <= 3

\* a daily run over four candidates of each kind returned two experiment
\* actions and three content actions
C14_Witness ==
    /\ daily[1].pc = "done"
    /\ Len(SelectSeq(daily[1].allData, TestingFilter)) = 4
    /\ Len(SelectSeq(daily[1].allData, LowPerformingFilter)) = 4
    /\ CountOfTypes(daily[1].result, {"start_ab_test", "apply_best_variation"}) = 2
    /\ CountOfTypes(daily[1].result, {"improve_content"}) = 3

\* the largest batch any capped pass of the engine takes: slice(0, 3)
largestBatch == 3

\* C15: the price mutations of a daily run stay within a fixed batch,
\* whatever the number of listings in its snapshot
C15_MutationsCapped ==
    \A r \in Slots :
        CountOfTypes(daily[r].actions,
                     {"optimize_long_term_price_up", "optimize_long_term_price_down"})
            <= largestBatch

ApplyOps == {"applyPromotionToPrompt", "applyPromotion"}
RemoveOps == {"removePromotionFromPrompt", "removePromotion"}

\* C16: a promotion applied to a listing of whole price p at a discount of
\* at most 50 % and then removed leaves a price within one unit of p, for the
\* PromotionService pair and for the engine's weekly pair
C16_PromotionRoundTrip ==
    \A j, k \in 1..Len(serviceCalls) :
        ( /\ j < k
          /\ serviceCalls[j].op \in ApplyOps /\ serviceCalls[j].updated
          /\ serviceCalls[k].op \in RemoveOps /\ serviceCalls[k].updated
          /\ \A m \in (j + 1)..(k - 1) : ~serviceCalls[m].updated )
        => /\ serviceCalls[k].percentage <= maxDiscountPercentage
           /\ serviceCalls[k].after - serviceCalls[j].before <= 100
           /\ serviceCalls[j].before - serviceCalls[k].after <= 100

\* a promotion of 50 % applied and removed by the PromotionService, the
\* price recovered being one unit off the original one
C16_Witness ==
    /\ Len(serviceCalls) = 2
    /\ serviceCalls[1].op = "applyPromotionToPrompt" /\ serviceCalls[1].updated
    /\ serviceCalls[2].op = "removePromotionFromPrompt" /\ serviceCalls[2].updated
    /\ serviceCalls[2].percentage = maxDiscountPercentage
    /\ serviceCalls[2].after # serviceCalls[1].before

\* C17: for a weekday name, getNextOccurrence returns the earliest instant
\* strictly after now that falls on that weekday at that hour
C17_NextOccurrenceIsEarliest ==
    \A k \in 1..Len(serviceCalls) :
        LET c == serviceCalls[k] IN
            (c.op = "getNextOccurrence" /\ c.day \in 0..6) =>
                /\ c.result > c.today
                /\ GetDay(c.result) = c.day
                /\ GetHours(c.result) = c.hour
                /\ c.result - 7 * 24 <= c.today

\* total visits of the data points of one weekday and hour
RECURSIVE TotalVisits(_, _, _)
TotalVisits(analytics, day, hour) ==
    IF analytics = <<>> THEN 0
    ELSE (IF Head(analytics).day = day /\ Head(analytics).hour = hour
             THEN Head(analytics).visits ELSE 0)
         + TotalVisits(Tail(analytics), day, hour)

\* number of data points of one weekday and hour
PointCount(analytics, day, hour) ==
    Cardinality({i \in 1..Len(analytics) :
                    analytics[i].day = day /\ analytics[i].hour = hour})

\* C18: findLowActivityPeriods returns at most 5 buckets, none of the night,
\* each with its total visits and number of points, in non-decreasing order
\* of average, and no daytime bucket left out averages less than a returned one
C18_LowActivityPeriods ==
    \A k \in 1..Len(serviceCalls) :
        LET c == serviceCalls[k] IN
            c.op = "findLowActivityPeriods" =>
                LET r == c.result
                    a == c.analytics
                    returned == {<<r[i].day, r[i].hour>> : i \in 1..Len(r)}
                IN  /\ Len(r) <= 5
                    /\ Cardinality(returned) = Len(r)
                    /\ \A i \in 1..Len(r) :
                          /\ r[i].hour \notin 0..6
                          /\ r[i].count = PointCount(a, r[i].day, r[i].hour)
                          /\ r[i].count > 0
                          /\ r[i].visits = TotalVisits(a, r[i].day, r[i].hour)
                    /\ \A i, j \in 1..Len(r) :
                          i < j => r[i].visits * r[j].count <= r[j].visits * r[i].count
                    /\ \A n \in 1..Len(a) :
                          (a[n].hour >= 7 /\ <<a[n].day, a[n].hour>> \notin returned) =>
                              \A i \in 1..Len(r) :
                                  r[i].visits * PointCount(a, a[n].day, a[n].hour)
                                     <= TotalVisits(a, a[n].day, a[n].hour) * r[i].count

\* six daytime buckets and a night bucket, five returned, the first of them
\* less active than the last, and a bucket that is less active than the one
\* left out only on average
C18_Witness ==
    /\ Len(serviceCalls) = 1
    /\ serviceCalls[1].op = "findLowActivityPeriods"
    /\ Len(serviceCalls[1].analytics) = Len(ActivityKeys)
    /\ LET r == serviceCalls[1].result IN
          /\ Len(r) = 5
          /\ r[1].visits * r[5].count < r[5].visits * r[1].count
          /\ \E i \in 1..5 : r[i].count = 2 /\ r[i].visits = 60
          /\ \A i \in 1..5 : ~(r[i].day = 5 /\ r[i].hour = 12)
          /\ TotalVisits(serviceCalls[1].analytics, 5, 12) = 50

\* a price within the limits of the engine
Clamped(price) == Min(Max(price, minPromptPrice), maxPromptPrice)

\* C19: the new price of a long-term action is the price times 1.1, or
\* times 0.9, clamped to the price range
C19_LongTermPriceClamped ==
    \A r \in Slots : \A k \in 1..Len(daily[r].actions) :
        LET a == daily[r].actions[k] IN
            /\ a.type = "optimize_long_term_price_up" =>
                  a.newPrice = Clamped((a.oldPrice * 110) \div 100)
            /\ a.type = "optimize_long_term_price_down" =>
                  a.newPrice = Clamped((a.oldPrice * 90) \div 100)

\* C20: a long-term action moves the price in its direction
C20_LongTermPriceMoves ==
    \A r \in Slots : \A k \in 1..Len(daily[r].actions) :
        LET a == daily[r].actions[k] IN
            /\ a.type = "optimize_long_term_price_up" => a.newPrice > a.oldPrice
            /\ a.type = "optimize_long_term_price_down" => a.newPrice < a.oldPrice

\* C21: every price in the catalog lies within the configured limits, the
\* lower one read as the smaller of the engine's and the API's
C21_PricesWithinBounds ==
    \A id \in DOMAIN catalog :
        /\ catalog[id].price >= Min(minPromptPrice, EnvOr(envMinPrice, apiDefaultMinPrice) * 100)
        /\ catalog[id].price <= maxPromptPrice

\* C22: when all variants of a listing have been tested, startABTest writes
\* to the listing the text of the stored result with the highest conversion,
\* the one recorded first among equals, and returns it
C22_BestResultApplied ==
    [][\A r \in Slots :
          LET n == Len(daily'[r].actions) IN
              ( /\ n = Len(daily[r].actions) + 1
                /\ daily'[r].actions[n].type = "apply_best_variation" )
              => LET a == daily'[r].actions[n]
                     v == variations[a.promptId]
                     firstBest == {i \in 1..Len(v.results) :
                         /\ \A j \in 1..Len(v.results) :
                               v.results[j].conversion <= v.results[i].conversion
                         /\ \A j \in 1..(i - 1) :
                               v.results[j].conversion # v.results[i].conversion}
                 IN  /\ v.tested_count >= v.count
                     /\ \E i \in firstBest :
                           /\ a.variation = v.results[i]
                           /\ catalog'[a.promptId].title = v.results[i].title]_vars

\* the winner was applied where both results have the same conversion: the
\* listing carries the text of the first one
C22_Witness ==
    /\ \E k \in 1..Len(daily[1].actions) :
          /\ daily[1].actions[k].type = "apply_best_variation"
          /\ daily[1].actions[k].promptId = "p1"
          /\ daily[1].actions[k].variation.title = Title(0)
    /\ Len(variations["p1"].results) = 2
    /\ variations["p1"].results[1].conversion = variations["p1"].results[2].conversion
    /\ variations["p1"].results[1].title # variations["p1"].results[2].title
    /\ catalog["p1"].title = Title(0)

\* C23: with fewer than 2 stored variants startABTest writes nothing to the
\* catalog, registers no conclusion and returns no action
C23_NothingToTestIsNoOp ==
    [][\A r \in Slots :
          ( /\ daily[r].pc = "test"
            /\ daily'[r].pc = "test"
            /\ daily'[r].idx = daily[r].idx + 1
            /\ variations[promptsForTesting(daily[r].allData)[daily[r].idx].id].count < 2 )
          => /\ catalog' = catalog
             /\ timers' = timers
             /\ variations' = variations
             /\ daily'[r].actions = daily[r].actions]_vars

\* a run went past the listing with a single variant while it was a
\* candidate, and it is as it was
C23_Witness ==
    /\ daily[1].pc \in {"improve", "price", "done"}
    /\ \E k \in 1..Len(daily[1].tested) : daily[1].tested[k] = "p3"
    /\ variations["p3"].count = 1
    /\ catalog["p3"] = Published(10000, FALSE, 45)
    /\ timers = <<>>

\* C24: the statistics an hourly run decides on are fetched during that
\* run: starting a run renews the cached snapshot and the run works on it
C24_FreshSnapshotPerRun ==
    [][(hourly.pc \in {"idle", "done"} /\ hourly'.pc = "loop")
          => /\ promptStats' # promptStats
             /\ hourly'.stats = promptStats'.data]_vars

\* the listing of the weekly run's snapshot with this id
WeeklySnapshotOf(id) ==
    LET k == CHOOSE i \in 1..Len(weekly.prompts) : weekly.prompts[i].id = id
    IN  weekly.prompts[k]

\* C25: the listings a weekly run refreshes are among the 2 oldest of the
\* listings created more than 30 days ago
C25_OldestRefreshed ==
    \A k \in 1..Len(weekly.actions) :
        weekly.actions[k].type = "refresh_content" =>
            LET p == WeeklySnapshotOf(weekly.actions[k].promptId)
                older == {i \in 1..Len(weekly.prompts) :
                             weekly.prompts[i].age_days > p.age_days}
            IN  /\ p.age_days > 30
                /\ Cardinality(older) < 2

\* C26: a weekly run makes at most 2 refreshes, 3 removals and 3
\* applications; a removal is for a listing on promotion with more than 500
\* views and a conversion above 12 %, an application for one not on promotion
\* with 100 to 300 views and a conversion below 3 %, never both for a listing
C26_WeeklyCapsAndTargets ==
    /\ \A list \in {weekly.actions, weekly.result} :
          /\ CountOfTypes(list, {"refresh_content"}) <= 2
          /\ CountOfTypes(list, {"remove_promotion"}) <= 3
          /\ CountOfTypes(list, {"apply_promotion"}) <= 3
    /\ \A k \in 1..Len(weekly.actions) :
          LET a == weekly.actions[k] IN
              /\ a.type = "remove_promotion" =>
                    LET p == WeeklySnapshotOf(a.promptId) IN
                        /\ p.on_promotion
                        /\ p.performance # NoPerformance
                        /\ p.performance.views_last_7_days > 500
                        /\ p.performance.conversion_rate > 12
              /\ a.type = "apply_promotion" =>
                    LET p == WeeklySnapshotOf(a.promptId) IN
                        /\ ~p.on_promotion
                        /\ p.performance # NoPerformance
                        /\ p.performance.views_last_7_days > 100
                        /\ p.performance.views_last_7_days < 300
                        /\ p.performance.conversion_rate < 3
    /\ \A j, k \in 1..Len(weekly.actions) :
          ~ ( /\ weekly.actions[j].type = "remove_promotion"
              /\ weekly.actions[k].type = "apply_promotion"
              /\ weekly.actions[j].promptId = weekly.actions[k].promptId )

\* four listings on promotion and in high demand: the run returned three
\* removals
C26_Witness ==
    /\ weekly.pc = "done"
    /\ Len(SelectSeq(weekly.prompts, LAMBDA p : HighDemandFilter(p) /\ p.on_promotion)) = 4
    /\ CountOfTypes(weekly.result, {"remove_promotion"}) = 3
    /\ CountOfTypes(weekly.result, {"refresh_content"}) = 2

\* C27: a weekly run sends exactly one notification, when it returns: the
\* report with the returned actions attached, or the error notification
\* with an empty result when the run fails as a whole
C27_OneWeeklyNotification ==
    /\ weekly.pc # "done" => weekly.notifications = <<>>
    /\ weekly.pc = "done" =>
          /\ Len(weekly.notifications) = 1
          /\ weekly.error = "none" =>
                /\ weekly.notifications[1].type = "report"
                /\ weekly.attachment = weekly.result
                /\ weekly.result = weekly.actions
          /\ weekly.error # "none" =>
                /\ weekly.notifications[1].type = "error"
                /\ weekly.result = <<>>

\* a run whose writes all failed reported its zero actions
C27_Witness ==
    /\ weekly.pc = "done"
    /\ weekly.error = "none"
    /\ Len(oldPrompts(weekly.prompts)) = 2
    /\ weekly.result = <<>>
    /\ Len(weekly.notifications) = 1
    /\ weekly.notifications[1].type = "report"

\* the promotions a setupDynamicPromotions run has created for low-activity
\* periods, and those for calendar events
FlashPromotions ==
    SelectSeq(promo.createdPromotions, LAMBDA p : p.name[1] = "Flash Sale")
EventPromotions ==
    SelectSeq(promo.createdPromotions, LAMBDA p : p.name[1] # "Flash Sale")

\* ids of the listings not on promotion in the set the run has fetched
EligibleListings ==
    {promo.allPrompts[i].id : i \in {j \in 1..Len(promo.allPrompts) :
                                        ~promo.allPrompts[j].on_promotion}}

\* C28: a run registers at most 3 flash promotions, each for 1 to 3 listings
\* not on promotion in the fetched set, at 25 %, starting in the future and
\* ending exactly 3 hours later
C28_FlashPromotions ==
    /\ Len(FlashPromotions) <= 3
    /\ \A k \in 1..Len(FlashPromotions) :
          LET p == FlashPromotions[k] IN
              /\ Cardinality(p.prompt_ids) \in 1..3
              /\ p.prompt_ids \subseteq EligibleListings
              /\ p.discount_percentage = 25
              /\ p.start_time > promo.today
              /\ p.end_time = p.start_time + 3
              /\ \E n \in 1..Len(promotions) : promotions[n] = p

\* a run over four listings, the first on promotion, registered three flash
\* promotions of three listings each
C28_Witness ==
    /\ promo.pc = "done"
    /\ Len(promo.allPrompts) = 4
    /\ promo.allPrompts[1].on_promotion
    /\ Len(FlashPromotions) = 3
    /\ \A k \in 1..3 : FlashPromotions[k].prompt_ids = {"p2", "p3", "p4"}

C30_UpcomingEvents ==
    \A k \in 1..Len(serviceCalls) :
        LET c == serviceCalls[k] IN
            c.op = "checkUpcomingSpecialEvents" =>
                /\ \A n \in 1..Len(c.result) :
                      /\ c.result[n].startDate \div 24 >= c.today \div 24
                      /\ c.result[n].daysUntilEvent \in 0..14
                /\ \A i \in 1..Len(specialEvents) : \A year \in 0..2 :
                      LET date == DateOf(year, specialEvents[i].month, specialEvents[i].day) IN
                          ( /\ date \div 24 >= c.today \div 24
                            /\ date - c.today <= 14 * 24 )
                          => \E n \in 1..Len(c.result) :
                                /\ c.result[n].name = specialEvents[i].name
                                /\ c.result[n].startDate = date


\* C31: applyPromotionToPrompt called on a listing that is on promotion, and
\* removePromotionFromPrompt called on a listing that is not, return without
\* writing to the catalog: price, on_promotion and promotion_percentage stay
\* as they were
C31_RepeatedCallsAreNoOps ==
    [][ ( /\ Len(serviceCalls') = Len(serviceCalls) + 1
          /\ LET call == serviceCalls'[Len(serviceCalls')] IN
                \/ /\ call.op = "applyPromotionToPrompt"
                   /\ catalog[call.promptId].on_promotion
                \/ /\ call.op = "removePromotionFromPrompt"
                   /\ ~catalog[call.promptId].on_promotion )
        => /\ catalog' = catalog
           /\ ~serviceCalls'[Len(serviceCalls')].updated ]_vars

\* a promotion applied, and applyPromotionToPrompt called again at once: the
\* listing keeps the price and the percentage of the first call
C31_Witness ==
    /\ Len(serviceCalls) = 2
    /\ serviceCalls[1].op = "applyPromotionToPrompt" /\ serviceCalls[1].updated
    /\ serviceCalls[2].op = "applyPromotionToPrompt" /\ ~serviceCalls[2].updated
    /\ catalog["p1"].on_promotion
    /\ catalog["p1"].price = serviceCalls[1].after
    /\ serviceCalls[1].after # serviceCalls[1].before

\* the removals of the PromotionService that wrote a price, in call order
CycleEnds ==
    {k \in 1..Len(serviceCalls) :
        serviceCalls[k].op = "removePromotionFromPrompt" /\ serviceCalls[k].updated}

RECURSIVE Recoveries(_, _, _, _, _)
\* the prices k further cycles at discount d can recover from price q, a
\* removal from the promotion price of the first cycle giving what it gave
Recoveries(q, d, k, firstPromotion, firstNormal) ==
    IF k = 0 THEN {q}
    ELSE UNION {Recoveries(r, d, k - 1, firstPromotion, firstNormal) :
                  r \in UNION {IF a = firstPromotion THEN {firstNormal}
                                                      ELSE ServiceNormalPrices(a, d) :
                                 a \in ServicePromotionPrices(q, d)}}

\* C32: the price recovered by a cycle does not depend on how many cycles at
\* that discount went before it: every cycle after the first recovers the
\* price the first one recovered, so the error of at most one unit is made
\* once and does not grow
C32_ErrorSettles ==
    \A j, k \in CycleEnds : serviceCalls[k].after = serviceCalls[j].after

\* two cycles at one discount: the first loses a unit, the second recovers
\* the price of the first
C32_Witness ==
    /\ Len(serviceCalls) = 4
    /\ CycleEnds = {2, 4}
    /\ serviceCalls[1].updated /\ serviceCalls[3].updated
    /\ serviceCalls[2].after # serviceCalls[1].before
    /\ serviceCalls[4].after = serviceCalls[2].after

\* C32 as stated: some whole price, some discount in 1..50 and some number
\* k >= 2 of cycles at it give a recovered price other than the one the
\* first cycle recovered (the functions being the ones the calls apply, this
\* is evaluated before any call is made)
C32_DriftExists ==
    serviceCalls = <<>> =>
    \E p \in 1..MaxPrice, d \in 1..maxDiscountPercentage, k \in 2..MaxCycles :
        \E a \in ServicePromotionPrices(p * 100, d) :
            \E q \in ServiceNormalPrices(a, d) :
                Recoveries(q, d, k - 1, a, q) # {q}


\* C33: within one daily run, a listing for which the experiment pass issued
\* start_ab_test gets no improve_content and no long-term price action from
\* the later passes of that run
C33_StartedListingsLeftAlone ==
    \A r \in Slots : \A j, k \in 1..Len(daily[r].actions) :
        ( /\ j < k
          /\ daily[r].actions[j].type = "start_ab_test"
          /\ daily[r].actions[k].promptId = daily[r].actions[j].promptId )
        => daily[r].actions[k].type \notin
              {"improve_content", "optimize_long_term_price_up",
               "optimize_long_term_price_down"}


LongTermTypes == {"optimize_long_term_price_up", "optimize_long_term_price_down"}

\* C34: the newPrice recorded with a price action, of the hourly pass or of
\* the long-term pass of a daily run, is the price updatePromptPrice has
\* just written to the catalog for that listing
C34_RecordedPriceIsWritten ==
    [][ /\ Len(hourly'.updatedPrompts) = Len(hourly.updatedPrompts) + 1 =>
              LET u == hourly'.updatedPrompts[Len(hourly'.updatedPrompts)] IN
                  catalog'[u.id].price = u.newPrice
        /\ \A r \in Slots :
              ( /\ Len(daily'[r].actions) = Len(daily[r].actions) + 1
                /\ daily'[r].actions[Len(daily'[r].actions)].type \in LongTermTypes )
              => LET a == daily'[r].actions[Len(daily'[r].actions)] IN
                     catalog'[a.promptId].price = a.newPrice ]_vars


\* the action a step of the experiment pass of run r appended, if any
AppendedAction(r) ==
    IF Len(daily'[r].actions) = Len(daily[r].actions) + 1
       THEN {daily'[r].actions[Len(daily'[r].actions)]}
       ELSE {}

\* C35: startABTest registers the deferred conclusion only once the catalog
\* write has succeeded: a step of the experiment pass registers a timer
\* exactly when it returns start_ab_test, and then the listing carries that
\* variant with currently_testing set; a call that wrote nothing registers
\* no timer and returns no such action; either way the run goes on with the
\* next candidate
C35_ConclusionOnlyAfterWrite ==
    [][ \A r \in Slots :
          ( daily[r].pc = "test" /\ daily'[r].idx = daily[r].idx + 1 ) =>
              LET prompt == promptsForTesting(daily[r].allData)[daily[r].idx]
                  started == {a \in AppendedAction(r) : a.type = "start_ab_test"}
              IN  /\ (timers' # timers) = (started # {})
                  /\ \A a \in started :
                        /\ timers' = Append(timers, [promptId |-> prompt.id,
                                                     variationIndex |-> a.variationIndex])
                        /\ a.promptId = prompt.id
                        /\ catalog'[prompt.id].currently_testing
                        /\ catalog'[prompt.id].title = Title(a.variationIndex)
                  /\ catalog' = catalog => (timers' = timers /\ started = {})
                  /\ daily'[r].pc = "test"
                  /\ daily'[r].tested = Append(daily[r].tested, prompt.id) ]_vars

\* a run whose first candidate had a variant left to test and came back
\* with nothing written, no timer and no action, and whose second candidate
\* was then started
C35_Witness ==
    /\ daily[1].tested = <<"p1", "p2">>
    /\ StartABTestBranch(variations["p1"]) = "start"
    /\ ~catalog["p1"].currently_testing
    /\ timers = <<[promptId |-> "p2", variationIndex |-> 0]>>
    /\ Len(daily[1].actions) = 1
    /\ daily[1].actions[1].type = "start_ab_test"
    /\ daily[1].actions[1].promptId = "p2"
    /\ catalog["p2"].currently_testing


\* the listings of a snapshot that are in high demand and on promotion
PromotedHighDemand(prompts) ==
    SelectSeq(prompts, LAMBDA p : HighDemandFilter(p) /\ p.on_promotion)

\* C36: the removal pass of a weekly run calls removePromotion for
\* min(3, n) listings, n being the number of listings of the snapshot that
\* are in high demand and on promotion: listings in high demand that are
\* not on promotion take none of the three places
C36_RemovalsUpToCap ==
    weekly.pc \in {"remove", "apply", "done"} =>
        Len(SelectSeq(highDemandPrompts(weekly.prompts), LAMBDA p : p.on_promotion))
            = Min(3, Len(PromotedHighDemand(weekly.prompts)))


\* C37: whatever the restarts of startSystem, the process registers the cron
\* tasks once and starts the HTTP server once
C37_RegisteredOnce ==
    /\ system.taskSets <= 1
    /\ system.servers <= 1

\* C38: a call of getHourlyAnalytics(days) that returns a series returns one
\* fetched for that number of days, also after a failing fetch: the cached
\* series is returned only if it is one for days, and the call raises
\* otherwise
C38_SeriesOfRequestedDays ==
    \A k \in 1..Len(serviceCalls) :
        serviceCalls[k].op = "getHourlyAnalytics" =>
            IF serviceCalls[k].threw
               THEN serviceCalls[k].fetch = "failed"
               ELSE serviceCalls[k].result.days = serviceCalls[k].days

\* the entry of the call a step has just handled, if any
HandledCall ==
    IF Len(serviceCalls') = Len(serviceCalls) + 1
       THEN {serviceCalls'[Len(serviceCalls')]}
       ELSE {}

\* C39: a refund request handled without error is approved exactly when at
\* most 3 days have passed and the user has fewer than 5 refunds, else
\* denied exactly when more than 7 days have passed, else left for manual
\* review with one notification and no approve or deny call; the counters
\* change only with a successful approve or deny call, and
\* refundsProcessed = refundsApproved + refundsDenied
C39_RefundOutcomes ==
    [][ /\ \A e \in HandledCall :
              (e.op = "handleRefundRequest" /\ e.result.success) =>
                  LET approve == isAutomaticallyApproved(e.daysSincePurchase, e.userRefunds)
                      deny == ~approve /\ e.daysSincePurchase > refundWindowDays
                  IN  /\ (e.result.outcome = "autoApproved") = approve
                      /\ (e.result.outcome = "autoDenied") = deny
                      /\ (e.result.outcome = "needsManualReview") = (~approve /\ ~deny)
                      /\ e.result.outcome = "needsManualReview" =>
                            e.apiCalls = <<>> /\ Len(e.notifications) = 1
        /\ refundStats' # refundStats =>
              \E e \in HandledCall : \E k \in 1..Len(e.apiCalls) : e.apiCalls[k].ok
        /\ refundStats'.refundsProcessed =
              refundStats'.refundsApproved + refundStats'.refundsDenied ]_vars

====
